---- MODULE Spec2Model ----
(***************************************************************************)
(* A model of jsdaffodil's Daffodil class (src/index.js): the step         *)
(* orchestrator deploy(), the connection manager connect(), the archive    *)
(* transfer pipeline transferFiles() with its exclude matcher filterFn,    *)
(* and the constructor's loadIgnoreList().                                 *)
(*                                                                         *)
(* JavaScript strings are sequences of one-character strings, so that      *)
(* concatenation, includes(), endsWith(), replace() and path.basename()    *)
(* are computed character by character.                                    *)
(***************************************************************************)
EXTENDS Integers, Sequences, FiniteSets, TLC

VARIABLES
    platform,      \* "posix" or "win32": decides path.sep and path.basename
    verbose,       \* this.verbose (in transferFiles it only changes what is logged)
    \* ---- deploy() / connect()
    steps,         \* the caller's step list: the sequence of step labels
    pc,            \* where deploy() is
    keyIdx,        \* connect(): index into keyFiles of the key being probed
    tried,         \* connect(): the keys ssh.connect was attempted with, in order
    keysAbsent,    \* connect(): the keys fs.existsSync found absent
    authed,        \* connect(): the keys ssh.connect resolved for, in order
    conn,          \* this.ssh's current connection: "none" or "live"
    leaked,        \* connections replaced by a later ssh.connect while still live
    i,             \* deploy(): the loop index (1-based)
    started,       \* indices of the steps whose command() was invoked, in order
    inflight,      \* indices of the steps whose command() has not settled yet
    completed,     \* indices of the steps whose command() resolved
    thrown,        \* indices of the steps whose command() rejected, in order
    failedStep,    \* deploy(): failedStep
    failedError,   \* deploy(): failedError
    disposeCalls,  \* number of this.ssh.dispose() calls
    ensured,       \* connect(): the mkdir -p command that resolved: its target
                   \* directory and its exit code
    raised,        \* the error deploy() raised to its caller
    \* ---- transferFiles()
    tpc,           \* where transferFiles() is
    localPath,     \* argument localPath
    localKind,     \* what the local path is on disk: "absent", "file", "dir", "other"
    destinationPath, \* argument destinationPath
    excludeList,   \* this.excludeList
    localArchive,  \* the archive file at archivePath: NoFile or its entries
    remoteArchive, \* the file at remoteArchivePath on the remote host
    shipped,       \* the entries of the archive that putFile copied
    usedFilter,    \* whether the archive on disk was built with filterFn
    ops,           \* externally visible operations issued so far, in order
    caught,        \* the error the pipeline's catch received
    traised,       \* the error transferFiles() raised to its caller
    extracted,     \* the entries tar -xzf wrote into the destination
    extractResult, \* extractResult: whether the command ran, its exit code and
                   \* what it printed
    \* ---- filterFn
    pattern,       \* one exclude pattern
    candidate,     \* the path tar hands to the filter
    verdict,       \* "unset", or what the matcher answered for (pattern, candidate)
    \* ---- constructor / loadIgnoreList
    cpc,           \* "new" before the constructor has run, "constructed" after
    ignoreFile,    \* the file at this.ignoreFile: whether it exists, and its text
    options,       \* the options object handed to the constructor
    config,        \* this.remoteUser, remoteHost, remotePath, port, ignoreFile
    \* ---- one call of runCommand, sshCommand, getHumanReadableError, or one
    \* ---- require() of the CommonJS entry point
    apiCall,       \* the operation called and its argument
    apiRet,        \* how the call ended: the value returned or the error raised
    \* ---- transferFiles invocations running side by side in one process
    clock,         \* what Date.now() returns
    inv,           \* per invocation: where it is and the archive name it took
    cwdFiles       \* the archive files in process.cwd(): for each timestamp of
                   \* a name, the invocation that wrote the file (0: no file)

deployVars == <<steps, pc, keyIdx, tried, keysAbsent, authed, conn, leaked, i,
                started, inflight, completed, thrown, failedStep, failedError,
                disposeCalls, raised, ensured>>
transferVars == <<tpc, localPath, localKind, destinationPath, excludeList,
                  localArchive, remoteArchive, shipped, usedFilter, ops, caught,
                  traised, extracted, extractResult>>
filterVars == <<pattern, candidate, verdict>>
ignoreVars == <<cpc, ignoreFile>>
configVars == <<options, config>>
apiVars == <<apiCall, apiRet>>
parVars == <<clock, inv, cwdFiles>>
vars == <<platform, verbose, deployVars, transferVars, filterVars, ignoreVars,
          configVars, apiVars, parVars>>

-----------------------------------------------------------------------------
(* Bounds of the model *)

\* longest step list the caller supplies
MaxSteps == 3
\* longest exclude pattern handed to the matcher
MaxPatternLen == 3
\* longest candidate path handed to the matcher
MaxPathLen == 3
\* longest text of the ignore file
MaxFileLen == 5

-----------------------------------------------------------------------------
(* JavaScript strings *)

\* String.prototype.includes
Includes(s, t) ==
    \E k \in 0..(Len(s) - Len(t)) : SubSeq(s, k + 1, k + Len(t)) = t

\* String.prototype.endsWith
EndsWith(s, t) ==
    /\ Len(t) <= Len(s)
    /\ SubSeq(s, Len(s) - Len(t) + 1, Len(s)) = t

\* s.replace(/\\/g, "/")
ReplaceBackslash(s) == [k \in 1..Len(s) |-> IF s[k] = "\\" THEN "/" ELSE s[k]]

\* all strings over alphabet A of length at most n
StringsUpTo(A, n) == UNION {[1..k -> A] : k \in 0..n}

MsgDeploymentFailed == <<"D", "e", "p", "l", "o", "y", "m", "e", "n", "t", " ", "f", "a", "i", "l", "e", "d">>
MsgFailedAtStep == <<"D", "e", "p", "l", "o", "y", "m", "e", "n", "t", " ", "f", "a", "i", "l", "e", "d", " ", "a", "t", " ", "s", "t", "e", "p", ":", " ">>
MsgDotSpace == <<".", " ">>
StrUndefined == <<"u", "n", "d", "e", "f", "i", "n", "e", "d">>
StrDeploymentError == <<"D", "e", "p", "l", "o", "y", "m", "e", "n", "t", "E", "r", "r", "o", "r">>
MsgNullRead == <<"C", "a", "n", "n", "o", "t", " ", "r", "e", "a", "d", " ", "p", "r", "o", "p", "e", "r", "t", "i", "e", "s", " ", "o", "f", " ", "n", "u", "l", "l">>
\* the frames Error.captureStackTrace appends after the header line
StackFrames == <<"\n", " ", "a", "t">>

-----------------------------------------------------------------------------
(* Values *)

\* a JavaScript value an action may throw: an Error with a message, null,
\* undefined, or a primitive string (which has no .message)
ErrorValue(msg) == [kind |-> "Error", hasMessage |-> TRUE, message |-> msg]
NullValue == [kind |-> "null", hasMessage |-> FALSE, message |-> <<>>]
UndefinedValue == [kind |-> "undefined", hasMessage |-> FALSE, message |-> <<>>]
StringValue(s) == [kind |-> "string", hasMessage |-> FALSE, message |-> s]

Nullish(v) == v.kind \in {"null", "undefined"}

\* `${v.message}` for a non-nullish v
MessageText(v) == IF v.hasMessage THEN v.message ELSE StrUndefined

\* no error
NoError == [name |-> "none", message |-> <<>>, stack |-> <<>>]

\* failedStep: null, or the label of the failing step
NullStep == [isNull |-> TRUE, label |-> <<>>]
LabelStep(l) == [isNull |-> FALSE, label |-> l]

\* JavaScript truthiness of failedStep (null and "" are falsy)
Truthy(fs) == ~fs.isNull /\ fs.label # <<>>

Labels == {<<>>, <<"u", "p">>, <<"f", "a", "i", "l", "e", "d">>}
ThrownValues == {ErrorValue(<<"n", "o">>), ErrorValue(<<>>), NullValue,
                 UndefinedValue, StringValue(<<"n", "o">>)}

-----------------------------------------------------------------------------
(* class DeploymentError *)

DeploymentError(message, suppressStackTrace) ==
    [name |-> "DeploymentError",
     message |-> message,
     stack |-> IF suppressStackTrace
               THEN message
               ELSE StrDeploymentError \o <<":", " ">> \o message \o StackFrames]

\* the TypeError the engine raises for reading .message of null / undefined
TypeErrorValue ==
    [name |-> "TypeError",
     message |-> MsgNullRead,
     stack |-> <<"T", "y", "p", "e", "E", "r", "r", "o", "r">> \o <<":", " ">>
               \o MsgNullRead \o StackFrames]

-----------------------------------------------------------------------------
(* Files and the errors of a transfer *)

\* a file that does not exist / an archive file holding the entries e
\* (whole = FALSE: the write was cut short)
NoFile == [exists |-> FALSE, whole |-> FALSE, entries |-> {}]
ArchiveFile(e) == [exists |-> TRUE, whole |-> TRUE, entries |-> e]
PartialFile == [exists |-> TRUE, whole |-> FALSE, entries |-> {}]

NoTransferError ==
    [name |-> "none", code |-> "none", path |-> <<>>, type |-> "none",
     lstatPath |-> <<>>, origin |-> "none", cause |-> "none",
     mentionsENOENT |-> FALSE, detail |-> <<>>]

\* class PathNotFoundError
PathNotFoundError(path, type) ==
    [name |-> "PathNotFoundError", code |-> "none", path |-> path,
     type |-> type, lstatPath |-> <<>>, origin |-> "none", cause |-> "none",
     mentionsENOENT |-> FALSE, detail |-> <<>>]

\* class TransferError, wrapping originalError
TransferError(originalError) ==
    [name |-> "TransferError", code |-> "none", path |-> <<>>,
     type |-> "none", lstatPath |-> <<>>, origin |-> originalError.origin,
     cause |-> originalError.name,
     mentionsENOENT |-> originalError.mentionsENOENT,
     detail |-> originalError.detail]

\* an Error raised by an external operation: origin names the operation, code
\* is its err.code, and lstatPath the path its message quotes after "lstat "
\* (<<>> when the message has no such clause); the message of a system error
\* begins with its code
ExternalError(origin, code, lstatPath) ==
    [name |-> "Error", code |-> code, path |-> <<>>, type |-> "none",
     lstatPath |-> lstatPath, origin |-> origin, cause |-> "none",
     mentionsENOENT |-> (code = "ENOENT"), detail |-> <<>>]

\* new Error(`Failed to extract archive: ${stderr || stdout}`): it has no
\* code; detail is the text its message carries after the colon, a sequence
\* of pieces of what the remote command printed, which may hold "ENOENT"
ExtractError(stdout, stderr) ==
    LET printed == IF stderr # <<>> THEN stderr ELSE stdout
    IN  [name |-> "Error", code |-> "none", path |-> <<>>, type |-> "none",
         lstatPath |-> <<>>, origin |-> "extract", cause |-> "none",
         mentionsENOENT |-> Includes(printed, <<"ENOENT">>),
         detail |-> printed]

-----------------------------------------------------------------------------
(* Idle components *)

StepLists == UNION {[1..n -> Labels] : n \in 0..MaxSteps}

TransferIdle ==
    /\ tpc = "idle"
    /\ localPath = <<>>
    /\ localKind = "absent"
    /\ destinationPath = <<>>
    /\ excludeList = <<>>
    /\ localArchive = NoFile
    /\ remoteArchive = NoFile
    /\ shipped = NoFile
    /\ usedFilter = FALSE
    /\ ops = <<>>
    /\ caught = NoTransferError
    /\ traised = NoTransferError
    /\ extracted = {}
    /\ extractResult = [ran |-> FALSE, code |-> 0, stdout |-> <<>>, stderr |-> <<>>]

FilterIdle ==
    /\ pattern = <<>>
    /\ candidate = <<>>
    /\ verdict = "unset"

\* a text file on disk
AbsentFile == [exists |-> FALSE, text |-> <<>>]
TextFile(t) == [exists |-> TRUE, text |-> t]

\* the constructor has run; the ignore file is not looked at again
IgnoreIdle ==
    /\ cpc = "constructed"
    /\ ignoreFile = TextFile(<<>>)

\* a property of the constructor's options object: undefined, or a value
Absent(placeholder) == [given |-> FALSE, val |-> placeholder]
Given(v) == [given |-> TRUE, val |-> v]

\* defaults of the constructor's destructured parameter
DefaultRemotePath == <<".">>
DefaultPort == 22
DefaultIgnoreFile == <<".", "s", "c", "p", "i", "g", "n", "o", "r", "e">>

\* a destructuring default that overrides the value supplied
OrDefaultAlways(opt, d) == d

\* `name = d` in a destructuring pattern: d when the property is undefined
OrDefault(opt, d) == IF opt.given THEN opt.val ELSE d

\* the fields the constructor assigns from its options (lines 64-69)
Constructed(o) ==
    [remoteUser |-> o.remoteUser,
     remoteHost |-> o.remoteHost,
     remotePath |-> OrDefault(o.remotePath, DefaultRemotePath),
     port |-> OrDefault(o.port, DefaultPort),
     ignoreFile |-> OrDefault(o.ignoreFile, DefaultIgnoreFile)]

\* the fields before the constructor has assigned them
UnsetConfig ==
    [remoteUser |-> <<>>, remoteHost |-> <<>>, remotePath |-> <<>>,
     port |-> 0, ignoreFile |-> <<>>]

\* new Daffodil({ remoteUser, remoteHost })
OnlyUserAndHost ==
    [remoteUser |-> <<"u">>, remoteHost |-> <<"h">>,
     remotePath |-> Absent(<<>>), port |-> Absent(0),
     ignoreFile |-> Absent(<<>>), verbose |-> Absent(FALSE)]

\* the deployer was constructed from a user and a host alone
ConfigIdle ==
    /\ options = OnlyUserAndHost
    /\ config = Constructed(OnlyUserAndHost)

\* the error handed to getHumanReadableError: null/undefined, or an object
\* with its class, message, code and (PathNotFoundError) type and path; a
\* message is a sequence of pieces of text, <<>> an empty or missing one
ErrorObject(class, message, code) ==
    [falsy |-> FALSE, class |-> class, message |-> message, code |-> code,
     type |-> <<"directory">>, path |-> <<"b">>]
NoErrorObject ==
    [falsy |-> TRUE, class |-> "none", message |-> <<>>, code |-> "none",
     type |-> <<>>, path |-> <<>>]

\* a call of one method: its name, its string argument, its error argument
\* and (setOption) the verbose property of its options argument
Call(op, arg, error, flag) ==
    [op |-> op, arg |-> arg, error |-> error, flag |-> flag]
NoCall == Call("none", <<>>, NoErrorObject, Absent(FALSE))

\* how a call ended: what it returned or that it raised, and what the
\* underlying call (execSync, ssh.execCommand) did and printed; code is the
\* exit code of a remote command
Ended(how, kind, text, env, envText) ==
    [how |-> how, kind |-> kind, text |-> text, env |-> env,
     envText |-> envText, code |-> 0]
NoReturn == Ended("pending", "none", <<>>, "none", <<>>)

\* no call of runCommand, sshCommand, getHumanReadableError or require()
ApiIdle ==
    /\ apiCall = NoCall
    /\ apiRet = NoReturn

\* upper bound on the values of Date.now() (milliseconds from the start)
MaxClock == 2
\* the transferFiles invocations of one process
Invocations == {1, 2}
\* an invocation that has not taken an archive name yet; `sent` is the
\* invocation whose archive it copied to its remote host (0: none)
NotStarted == [at |-> "idle", named |-> FALSE, name |-> 0, sent |-> 0]

\* no transferFiles invocation has started; no archive in process.cwd()
ParallelIdle ==
    /\ clock = 0
    /\ inv = [k \in Invocations |-> NotStarted]
    /\ cwdFiles = [n \in 0..MaxClock |-> 0]

DeployIdle ==
    /\ pc = "idle"
    /\ keyIdx = 1
    /\ tried = <<>>
    /\ keysAbsent = {}
    /\ authed = <<>>
    /\ conn = "none"
    /\ leaked = 0
    /\ i = 1
    /\ started = <<>>
    /\ inflight = {}
    /\ completed = <<>>
    /\ thrown = <<>>
    /\ failedStep = NullStep
    /\ failedError = NullValue
    /\ disposeCalls = 0
    /\ raised = NoError
    /\ ensured = [ran |-> FALSE, code |-> 0, target |-> <<>>]

-----------------------------------------------------------------------------
(* connect() *)

\* deploy() and connect() touch nothing of a transfer or of the matcher
OtherThanDeploy ==
    UNCHANGED <<platform, verbose, transferVars, filterVars, ignoreVars,
                configVars, apiVars, parVars>>

\* keyFiles = ["id_rsa", "id_ed25519", "id_ecdsa", "id_dsa"]
keyFiles == <<"id_rsa", "id_ed25519", "id_ecdsa", "id_dsa">>

\* deploy(steps): await this.connect()
DeployCall ==
    /\ OtherThanDeploy
    /\ pc = "idle"
    /\ pc' = "probe"
    /\ keyIdx' = 1
    /\ UNCHANGED ensured
    /\ UNCHANGED <<steps, keysAbsent, authed, tried, conn, leaked, i,
                   started, inflight, completed, thrown, failedStep,
                   failedError, disposeCalls, raised>>

\* for (const keyFile of keyFiles): fs.existsSync(keyPath) is false
ConnectKeyAbsent ==
    /\ OtherThanDeploy
    /\ pc = "probe"
    /\ keyIdx <= Len(keyFiles)
    /\ keysAbsent' = keysAbsent \cup {keyFiles[keyIdx]}
    /\ keyIdx' = keyIdx + 1
    /\ UNCHANGED ensured
    /\ UNCHANGED <<steps, authed, pc, tried, conn, leaked, i, started, inflight,
                   completed, thrown, failedStep, failedError, disposeCalls,
                   raised>>

\* the key exists: await this.ssh.connect({...}) is issued
ConnectAttempt ==
    /\ OtherThanDeploy
    /\ pc = "probe"
    /\ keyIdx <= Len(keyFiles)
    /\ tried' = Append(tried, keyFiles[keyIdx])
    /\ pc' = "authing"
    /\ UNCHANGED ensured
    /\ UNCHANGED <<steps, keysAbsent, authed, keyIdx, conn, leaked, i,
                   started, inflight, completed, thrown, failedStep,
                   failedError, disposeCalls, raised>>

\* ssh.connect rejects: catch (err) { failures.push(...) }, next key
ConnectAuthFails ==
    /\ OtherThanDeploy
    /\ pc = "authing"
    /\ pc' = "probe"
    /\ keyIdx' = keyIdx + 1
    /\ UNCHANGED ensured
    /\ UNCHANGED <<steps, keysAbsent, authed, tried, conn, leaked, i,
                   started, inflight, completed, thrown, failedStep,
                   failedError, disposeCalls, raised>>

\* ssh.connect resolves: a new connection replaces this.ssh's current one;
\* await this.ssh.execCommand(`mkdir -p ${ensurePath}`) is issued
ConnectAuthOk ==
    /\ OtherThanDeploy
    /\ pc = "authing"
    /\ conn' = "live"
    /\ leaked' = IF conn = "live" THEN leaked + 1 ELSE leaked
    /\ authed' = Append(authed, keyFiles[keyIdx])
    /\ pc' = "mkdir"
    /\ UNCHANGED ensured
    /\ UNCHANGED <<steps, keysAbsent, keyIdx, tried, i, started, inflight,
                   completed, thrown, failedStep, failedError, disposeCalls,
                   raised>>

\* process.cwd() of the deploy script, on the local machine
LocalCwd == <<"/", "c">>

\* path.posix.resolve(p): p when it is absolute, otherwise p taken from the
\* current working directory of the local process
PosixResolve(p) ==
    IF p # <<>> /\ p[1] = "/" THEN p
    ELSE IF p = <<".">> THEN LocalCwd
    ELSE LocalCwd \o <<"/">> \o p

\* await this.ssh.execCommand(`mkdir -p ${ensurePath}`) with ensurePath =
\* path.posix.resolve(this.remotePath)
\* execCommand resolves (whatever the exit code): return from connect();
\* deploy: failedStep = null; failedError = null; i = 0
ConnectReturns ==
    /\ OtherThanDeploy
    /\ pc = "mkdir"
    /\ \E code \in {0, 1} :
          ensured' = [ran |-> TRUE, code |-> code,
                      target |-> PosixResolve(config.remotePath)]
    /\ pc' = "loop"
    /\ i' = 1
    /\ failedStep' = NullStep
    /\ failedError' = NullValue
    /\ UNCHANGED <<steps, keysAbsent, authed, keyIdx, tried, conn, leaked,
                   started, inflight, completed, thrown, disposeCalls,
                   raised>>

\* execCommand rejects, the channel refused on a connection that stays up or
\* the connection lost: the same catch records a failure, next key
ConnectMkdirRejects ==
    /\ OtherThanDeploy
    /\ pc = "mkdir"
    /\ pc' = "probe"
    /\ keyIdx' = keyIdx + 1
    /\ conn' \in {"live", "none"}
    /\ UNCHANGED ensured
    /\ UNCHANGED <<steps, keysAbsent, authed, tried, leaked, i, started,
                   inflight, completed, thrown, failedStep, failedError,
                   disposeCalls, raised>>

\* ConnectExits with process.exit(1) forgotten: connect() returns to deploy(),
\* which goes on to its loop
ConnectExitsReturns ==
    /\ OtherThanDeploy
    /\ pc = "probe"
    /\ keyIdx > Len(keyFiles)
    /\ pc' = "loop"
    /\ UNCHANGED ensured
    /\ UNCHANGED <<steps, keysAbsent, authed, keyIdx, tried, conn, leaked, i,
                   started, inflight, completed, thrown, failedStep,
                   failedError, disposeCalls, raised>>

\* the loop over keyFiles ends without return: process.exit(1); the process
\* ends and its connections end with it
ConnectExits ==
    /\ OtherThanDeploy
    /\ pc = "probe"
    /\ keyIdx > Len(keyFiles)
    /\ pc' = "exited"
    /\ conn' = "none"
    /\ leaked' = 0
    /\ UNCHANGED ensured
    /\ UNCHANGED <<steps, keysAbsent, authed, keyIdx, tried, i, started,
                   inflight, completed, thrown, failedStep, failedError,
                   disposeCalls, raised>>

-----------------------------------------------------------------------------
(* deploy(steps) *)

\* StepStart with the await forgotten: command() is invoked and the loop goes
\* on to the next step while the action is still running
StepStartNoAwait ==
    /\ OtherThanDeploy
    /\ pc = "loop"
    /\ i <= Len(steps)
    /\ started' = Append(started, i)
    /\ inflight' = inflight \cup {i}
    /\ i' = i + 1
    /\ UNCHANGED ensured
    /\ UNCHANGED <<steps, keysAbsent, authed, pc, keyIdx, tried, conn,
                   leaked, completed, thrown, failedStep, failedError,
                   disposeCalls, raised>>

\* loop body, first half: const { step, command } = steps[i]; command() is
\* invoked and awaited
StepStart ==
    /\ OtherThanDeploy
    /\ pc = "loop"
    /\ i <= Len(steps)
    /\ started' = Append(started, i)
    /\ inflight' = inflight \cup {i}
    /\ pc' = "await"
    /\ UNCHANGED ensured
    /\ UNCHANGED <<steps, keysAbsent, authed, keyIdx, tried, conn, leaked, i,
                   completed, thrown, failedStep, failedError, disposeCalls,
                   raised>>

\* await command() resolves: next iteration
StepResolves ==
    /\ OtherThanDeploy
    /\ pc = "await"
    /\ i \in inflight
    /\ inflight' = inflight \ {i}
    /\ completed' = Append(completed, i)
    /\ i' = i + 1
    /\ pc' = "loop"
    /\ UNCHANGED ensured
    /\ UNCHANGED <<steps, keysAbsent, authed, keyIdx, tried, conn, leaked,
                   started, thrown, failedStep, failedError, disposeCalls,
                   raised>>

\* the verbose branch of the catch evaluates err.message while logging: a
\* TypeError when err is null or undefined, which leaves deploy() at once
CatchThrows(v) == verbose /\ Nullish(v)

\* StepRejects with the break forgotten: the failure is recorded and the loop
\* goes on to the next step
StepRejectsNoBreak ==
    /\ OtherThanDeploy
    /\ pc = "await"
    /\ i \in inflight
    /\ \E v \in ThrownValues :
         /\ failedError' = v
         /\ IF CatchThrows(v)
            THEN /\ raised' = TypeErrorValue
                 /\ pc' = "raised"
                 /\ i' = i
            ELSE /\ raised' = raised
                 /\ pc' = "loop"
                 /\ i' = i + 1
    /\ inflight' = inflight \ {i}
    /\ thrown' = Append(thrown, i)
    /\ failedStep' = LabelStep(steps[i])
    /\ UNCHANGED ensured
    /\ UNCHANGED <<steps, keysAbsent, authed, keyIdx, tried, conn, leaked,
                   started, completed, disposeCalls>>

\* await command() rejects with v: catch (err) { failedStep = step;
\* failedError = err; ...log...; break }
StepRejects ==
    /\ OtherThanDeploy
    /\ pc = "await"
    /\ i \in inflight
    /\ \E v \in ThrownValues :
         /\ failedError' = v
         /\ IF CatchThrows(v)
            THEN /\ raised' = TypeErrorValue
                 /\ pc' = "raised"
            ELSE /\ raised' = raised
                 /\ pc' = "dispose"
    /\ inflight' = inflight \ {i}
    /\ thrown' = Append(thrown, i)
    /\ failedStep' = LabelStep(steps[i])
    /\ UNCHANGED ensured
    /\ UNCHANGED <<steps, keysAbsent, authed, keyIdx, tried, conn, leaked, i,
                   started, completed, disposeCalls>>

\* i < steps.length is false: the loop ends
LoopEnds ==
    /\ OtherThanDeploy
    /\ pc = "loop"
    /\ i > Len(steps)
    /\ pc' = "dispose"
    /\ UNCHANGED ensured
    /\ UNCHANGED <<steps, keysAbsent, authed, keyIdx, tried, conn, leaked, i,
                   started, inflight, completed, thrown, failedStep,
                   failedError, disposeCalls, raised>>

\* this.ssh.dispose(): ends the current connection
Dispose ==
    /\ OtherThanDeploy
    /\ pc = "dispose"
    /\ disposeCalls' = disposeCalls + 1
    /\ conn' = "none"
    /\ pc' = "finish"
    /\ UNCHANGED ensured
    /\ UNCHANGED <<steps, keysAbsent, authed, keyIdx, tried, leaked, i,
                   started, inflight, completed, thrown, failedStep,
                   failedError, raised>>

\* FailureError with the verbosity test lost: always the detailed error
FailureErrorDetailed(isVerbose, fs, fe) ==
    DeploymentError(MsgFailedAtStep \o fs.label \o MsgDotSpace
                    \o MessageText(fe), FALSE)

\* the error thrown under if (failedStep): detailed when verbose, else the
\* fixed message with the stack replaced by the message
FailureError(isVerbose, fs, fe) ==
    IF isVerbose
    THEN DeploymentError(MsgFailedAtStep \o fs.label \o MsgDotSpace
                         \o MessageText(fe), FALSE)
    ELSE DeploymentError(MsgDeploymentFailed, TRUE)

\* if (failedStep) { ... throw deploymentError }
DeployRaises ==
    /\ OtherThanDeploy
    /\ pc = "finish"
    /\ Truthy(failedStep)
    /\ raised' = FailureError(verbose, failedStep, failedError)
    /\ pc' = "raised"
    /\ UNCHANGED ensured
    /\ UNCHANGED <<steps, keysAbsent, authed, keyIdx, tried, conn, leaked, i,
                   started, inflight, completed, thrown, failedStep,
                   failedError, disposeCalls>>

\* failedStep is falsy: "Deployment finished", return
DeployReturns ==
    /\ OtherThanDeploy
    /\ pc = "finish"
    /\ ~Truthy(failedStep)
    /\ pc' = "returned"
    /\ UNCHANGED ensured
    /\ UNCHANGED <<steps, keysAbsent, authed, keyIdx, tried, conn, leaked, i,
                   started, inflight, completed, thrown, failedStep,
                   failedError, disposeCalls, raised>>

\* a freshly constructed deployer on which deploy(steps) is about to be called
InitDeploy ==
    /\ ConfigIdle
    /\ ApiIdle
    /\ ParallelIdle
    /\ platform = "posix"
    /\ verbose \in BOOLEAN
    /\ steps \in StepLists
    /\ DeployIdle
    /\ TransferIdle
    /\ FilterIdle
    /\ IgnoreIdle

NextDeploy ==
    \/ DeployCall
    \/ ConnectKeyAbsent
    \/ ConnectAttempt
    \/ ConnectAuthFails
    \/ ConnectAuthOk
    \/ ConnectReturns
    \/ ConnectMkdirRejects
    \/ ConnectExits
    \/ StepStart
    \/ StepResolves
    \/ StepRejects
    \/ LoopEnds
    \/ Dispose
    \/ DeployRaises
    \/ DeployReturns

SpecDeploy == InitDeploy /\ [][NextDeploy]_vars

-----------------------------------------------------------------------------
(* filterFn: the exclude matcher built in transferFiles() *)

\* the characters patterns and candidate paths are drawn from: a name
\* character, the dot, both separators and the wildcard
Alphabet == {"a", ".", "/", "\\", "*"}

\* what path.basename takes for a separator: "/" and, on win32, "\\" too
IsPathSeparator(c, plat) == c = "/" \/ (plat = "win32" /\ c = "\\")

\* path.basename(p): the characters between the last separator that is
\* followed by a non-separator and the last non-separator (p has no drive
\* letter: Alphabet has no ":")
Basename(p, plat) ==
    LET nonSep == {k \in 1..Len(p) : ~IsPathSeparator(p[k], plat)}
    IN  IF nonSep = {}
        THEN <<>>
        ELSE LET end == CHOOSE k \in nonSep : \A m \in nonSep : m <= k
                 seps == {k \in 1..end : IsPathSeparator(p[k], plat)}
                 start == IF seps = {}
                          THEN 0
                          ELSE CHOOSE k \in seps : \A m \in seps : m <= k
             IN  SubSeq(p, start + 1, end)

\* new RegExp("^" + np.replace(/\*/g, ".*").replace(/\//g, "[\\\\/]") + "$")
\* .test(s), for np over Alphabet: "*" has become ".*", "/" the class [\\/],
\* a "." stays the regex dot (any character), any other character is literal
RECURSIVE RegexTest(_, _)
RegexTest(np, s) ==
    IF np = <<>>
    THEN s = <<>>
    ELSE LET c == Head(np)
             rest == Tail(np)
         IN  IF c = "*"
             THEN \E k \in 0..Len(s) : RegexTest(rest, SubSeq(s, k + 1, Len(s)))
             ELSE /\ s # <<>>
                  /\ CASE c = "." -> TRUE
                       [] c = "/" -> Head(s) \in {"/", "\\"}
                       [] OTHER -> Head(s) = c
                  /\ RegexTest(rest, Tail(s))

\* PatternExcludes with the pattern's own separators left as written: the
\* path test compares against pat instead of normalizedPattern
PatternExcludesRaw(pat, filePath, plat) ==
    LET normalizedPath == ReplaceBackslash(filePath)
        fileName == Basename(filePath, plat)
    IN  IF fileName = pat
        THEN TRUE
        ELSE IF Includes(normalizedPath, pat) \/ EndsWith(normalizedPath, pat)
        THEN TRUE
        ELSE IF Includes(pat, <<"*">>)
        THEN RegexTest(ReplaceBackslash(pat), normalizedPath)
        ELSE FALSE

\* the callback of this.excludeList.some(...): does pat exclude filePath
PatternExcludes(pat, filePath, plat) ==
    LET normalizedPath == ReplaceBackslash(filePath)
        fileName == Basename(filePath, plat)
        normalizedPattern == ReplaceBackslash(pat)
    IN  IF fileName = pat \/ fileName = normalizedPattern
        THEN TRUE
        ELSE IF \/ Includes(normalizedPath, normalizedPattern)
                \/ EndsWith(normalizedPath, normalizedPattern)
        THEN TRUE
        ELSE IF Includes(normalizedPattern, <<"*">>)
        THEN RegexTest(normalizedPattern, normalizedPath)
        ELSE FALSE

\* filterFn(filePath): TRUE when tar is to include the path
filterFn(list, filePath, plat) ==
    ~\E k \in 1..Len(list) : PatternExcludes(list[k], filePath, plat)

\* the entries an exclude list can hold: trimmed, non-empty, no leading "#"
Patterns == StringsUpTo(Alphabet, MaxPatternLen) \ {<<>>}
CandidatePaths == StringsUpTo(Alphabet, MaxPathLen)

\* tar calls the filter on one path
ApplyFilter ==
    /\ verdict = "unset"
    /\ verdict' = IF filterFn(<<pattern>>, candidate, platform)
                  THEN "include"
                  ELSE "exclude"
    /\ UNCHANGED <<platform, verbose, deployVars, transferVars, ignoreVars,
                   configVars, apiVars, parVars,
                   pattern, candidate>>

InitFilter ==
    /\ ConfigIdle
    /\ ApiIdle
    /\ ParallelIdle
    /\ platform \in {"posix", "win32"}
    /\ verbose = FALSE
    /\ pattern \in Patterns
    /\ candidate \in CandidatePaths
    /\ verdict = "unset"
    /\ DeployIdle
    /\ steps = <<>>
    /\ TransferIdle
    /\ IgnoreIdle

NextFilter == ApplyFilter

SpecFilter == InitFilter /\ [][NextFilter]_vars

-----------------------------------------------------------------------------
(* transferFiles(localPath, destinationPath): validation *)

\* the arguments and the disk the transfers of the model run on
LocalPaths == {<<"b">>, <<"b", "/">>, <<"b", "\\">>}
DestinationPaths == {<<".">>, <<"w">>, <<"/", "w">>}
\* (the pattern "w" matches nothing of the tree)
ExcludeLists == {<<>>, <<<<"a">>>>, <<<<"b">>>>, <<<<"w">>>>}
\* what is under localPath when it is a directory: a, b and b/a
DirectoryTree == {<<"a">>, <<"b">>, <<"b", "/", "a">>}

\* a transfer changes neither its arguments nor the deployer's other state
OtherThanTransfer ==
    UNCHANGED <<platform, verbose, deployVars, filterVars, ignoreVars,
                configVars, apiVars, parVars,
                localPath, localKind, destinationPath, excludeList,
                extracted, extractResult>>

\* path.sep
PathSep(plat) == IF plat = "win32" THEN "\\" ELSE "/"

\* IsDirectoryLike looking at "/" alone, path.sep forgotten
IsDirectoryLikeSlashOnly(lp, plat) == EndsWith(lp, <<"/">>)

\* localPath.endsWith(path.sep) || localPath.endsWith("/")
IsDirectoryLike(lp, plat) ==
    EndsWith(lp, <<PathSep(plat)>>) \/ EndsWith(lp, <<"/">>)

Logged(op, ok) == Append(ops, [op |-> op, ok |-> ok])

\* errors of the local file system calls and of the SSH calls
FsErrors(origin) == {ExternalError(origin, c, <<>>) : c \in {"ENOENT", "EACCES"}}
SshErrors(origin) == {ExternalError(origin, "none", <<>>)}
\* fs.remove ignores a file that is already gone: it fails for lack of access
RemoveErrors(origin) == {ExternalError(origin, "EACCES", <<>>)}
\* tar.create fails for lack of access, or because an entry vanished under it
\* ("ENOENT: no such file or directory, lstat '...'")
TarErrors ==
    {ExternalError("tar.create", "EACCES", <<>>),
     ExternalError("tar.create", "ENOENT", <<"b", "/", "a">>)}

\* transferFiles(localPath, destinationPath) is called
TransferCall ==
    /\ OtherThanTransfer
    /\ tpc = "idle"
    /\ tpc' = "exists"
    /\ UNCHANGED <<localArchive, remoteArchive, shipped, usedFilter, ops,
                   caught, traised>>

\* !(await fs.pathExists(localPath)): throw new PathNotFoundError(...)
PathMissing ==
    /\ OtherThanTransfer
    /\ tpc = "exists"
    /\ localKind = "absent"
    /\ traised' = PathNotFoundError(localPath,
                      IF IsDirectoryLike(localPath, platform)
                      THEN "directory"
                      ELSE "file or directory")
    /\ tpc' = "raised"
    /\ UNCHANGED <<localArchive, remoteArchive, shipped, usedFilter, ops,
                   caught>>

\* the path exists: await fs.stat(localPath) is issued
PathExists ==
    /\ OtherThanTransfer
    /\ tpc = "exists"
    /\ localKind # "absent"
    /\ tpc' = "stat"
    /\ UNCHANGED <<localArchive, remoteArchive, shipped, usedFilter, ops,
                   caught, traised>>

\* fs.stat(localPath) rejects: outside the try, the error leaves as it is
StatRejects ==
    /\ OtherThanTransfer
    /\ tpc = "stat"
    /\ \E e \in FsErrors("stat") : traised' = e
    /\ tpc' = "raised"
    /\ UNCHANGED <<localArchive, remoteArchive, shipped, usedFilter, ops,
                   caught>>

\* !isDirectory && !stats.isFile(): throw new PathNotFoundError(localPath,
\* "file or directory")
NotFileOrDirectory ==
    /\ OtherThanTransfer
    /\ tpc = "stat"
    /\ localKind = "other"
    /\ traised' = PathNotFoundError(localPath, "file or directory")
    /\ tpc' = "raised"
    /\ UNCHANGED <<localArchive, remoteArchive, shipped, usedFilter, ops,
                   caught>>

\* a directory: the try block is entered, await fs.readdir(localPath)
StatDirectory ==
    /\ OtherThanTransfer
    /\ tpc = "stat"
    /\ localKind = "dir"
    /\ tpc' = "readdir"
    /\ UNCHANGED <<localArchive, remoteArchive, shipped, usedFilter, ops,
                   caught, traised>>

\* a regular file: the try block is entered, archiveEntries = [baseName]
StatFile ==
    /\ OtherThanTransfer
    /\ tpc = "stat"
    /\ localKind = "file"
    /\ tpc' = "tar"
    /\ UNCHANGED <<localArchive, remoteArchive, shipped, usedFilter, ops,
                   caught, traised>>

\* fs.readdir rejects: caught by the pipeline's catch
ReaddirRejects ==
    /\ OtherThanTransfer
    /\ tpc = "readdir"
    /\ \E e \in FsErrors("readdir") : caught' = e
    /\ tpc' = "catch"
    /\ UNCHANGED <<localArchive, remoteArchive, shipped, usedFilter, ops,
                   traised>>

\* fs.readdir resolves: archiveEntries = entries
ReaddirResolves ==
    /\ OtherThanTransfer
    /\ tpc = "readdir"
    /\ tpc' = "tar"
    /\ UNCHANGED <<localArchive, remoteArchive, shipped, usedFilter, ops,
                   caught, traised>>

-----------------------------------------------------------------------------
(* transferFiles: archive, ship, extract, cleanup *)

\* what tar is asked to pack: the directory's content, or the one file
TarEntries(kind, lp, plat) ==
    IF kind = "dir" THEN DirectoryTree ELSE {Basename(lp, plat)}

\* q is p or a directory above p
IsUnder(q, p) ==
    \/ q = p
    \/ /\ Len(q) < Len(p)
       /\ SubSeq(p, 1, Len(q)) = q
       /\ p[Len(q) + 1] = "/"

\* Packed with an absent filter taken for one that rejects: without a filter
\* nothing is packed
PackedNothingUnfiltered(entries, list, plat, filtered) ==
    {e \in entries :
        filtered /\ \A q \in entries : IsUnder(q, e) => filterFn(list, q, plat)}

\* tar.create({filter}, archiveEntries): an entry is packed unless the filter
\* rejects it or a directory above it (a rejected directory is not entered)
Packed(entries, list, plat, filtered) ==
    {e \in entries :
        filtered => \A q \in entries : IsUnder(q, e) => filterFn(list, q, plat)}

\* filterFn is defined only for a non-empty exclude list
HasFilter(list) == Len(list) > 0

\* await tar.create({..., filter: filterFn}, archiveEntries) resolves
TarCreateResolves ==
    /\ OtherThanTransfer
    /\ tpc = "tar"
    /\ localArchive' = ArchiveFile(Packed(TarEntries(localKind, localPath, platform),
                                          excludeList, platform,
                                          HasFilter(excludeList)))
    /\ usedFilter' = HasFilter(excludeList)
    /\ ops' = Logged("tar.create", TRUE)
    /\ tpc' = "verify"
    /\ UNCHANGED <<remoteArchive, shipped, caught, traised>>

\* TarCreateRejects with the retry left out: throw tarErr in every case
TarCreateRejectsNoRetry ==
    /\ OtherThanTransfer
    /\ tpc = "tar"
    /\ localArchive' \in {NoFile, PartialFile}
    /\ ops' = Logged("tar.create", FALSE)
    /\ \E e \in TarErrors : caught' = e
    /\ tpc' = "catch"
    /\ UNCHANGED <<remoteArchive, shipped, usedFilter, traised>>

\* the first tar.create rejects, leaving nothing or a cut-short file:
\* catch (tarErr) { if (filterFn) retry without filter; else throw tarErr }
TarCreateRejects ==
    /\ OtherThanTransfer
    /\ tpc = "tar"
    /\ localArchive' \in {NoFile, PartialFile}
    /\ ops' = Logged("tar.create", FALSE)
    /\ \E e \in TarErrors :
         IF HasFilter(excludeList)
         THEN /\ tpc' = "retry"
              /\ caught' = caught
         ELSE /\ tpc' = "catch"
              /\ caught' = e
    /\ UNCHANGED <<remoteArchive, shipped, usedFilter, traised>>

\* the retry, tar.create without filter, resolves
TarRetryResolves ==
    /\ OtherThanTransfer
    /\ tpc = "retry"
    /\ localArchive' = ArchiveFile(Packed(TarEntries(localKind, localPath, platform),
                                          excludeList, platform, FALSE))
    /\ usedFilter' = FALSE
    /\ ops' = Logged("tar.create", TRUE)
    /\ tpc' = "verify"
    /\ UNCHANGED <<remoteArchive, shipped, caught, traised>>

\* the retry rejects too: caught by the pipeline's catch
TarRetryRejects ==
    /\ OtherThanTransfer
    /\ tpc = "retry"
    /\ localArchive' \in {NoFile, PartialFile}
    /\ ops' = Logged("tar.create", FALSE)
    /\ \E e \in TarErrors : caught' = e
    /\ tpc' = "catch"
    /\ UNCHANGED <<remoteArchive, shipped, usedFilter, traised>>

\* if (!(await fs.pathExists(archivePath))) throw new Error("Archive file was
\* not created"); await fs.stat(archivePath) resolves
ArchiveCheck ==
    /\ OtherThanTransfer
    /\ tpc = "verify"
    /\ IF localArchive.exists
       THEN /\ tpc' = "rmstale"
            /\ caught' = caught
       ELSE /\ tpc' = "catch"
            /\ caught' = ExternalError("archive-missing", "none", <<>>)
    /\ UNCHANGED <<localArchive, remoteArchive, shipped, usedFilter, ops,
                   traised>>

\* fs.stat(archivePath) rejects: for lack of access, or with ENOENT when the
\* file was taken away after the existence check
ArchiveStatRejects ==
    /\ OtherThanTransfer
    /\ tpc = "verify"
    /\ localArchive.exists
    /\ \E e \in FsErrors("stat-archive") :
         /\ caught' = e
         /\ localArchive' = IF e.code = "ENOENT" THEN NoFile ELSE localArchive
    /\ tpc' = "catch"
    /\ UNCHANGED <<remoteArchive, shipped, usedFilter, ops, traised>>

\* await this.ssh.execCommand(`rm -f "${remoteArchivePath}" || true`)
\* resolves; its result is not looked at
RemoveStaleResolves ==
    /\ OtherThanTransfer
    /\ tpc = "rmstale"
    /\ \E ok \in BOOLEAN :
         /\ ops' = Logged("rm-stale", ok)
         /\ remoteArchive' = IF ok THEN NoFile ELSE remoteArchive
    /\ tpc' = "put"
    /\ UNCHANGED <<localArchive, shipped, usedFilter, caught, traised>>

\* that execCommand rejects
RemoveStaleRejects ==
    /\ OtherThanTransfer
    /\ tpc = "rmstale"
    /\ ops' = Logged("rm-stale", FALSE)
    /\ \E e \in SshErrors("rm-stale") : caught' = e
    /\ tpc' = "catch"
    /\ UNCHANGED <<localArchive, remoteArchive, shipped, usedFilter, traised>>

\* await this.ssh.putFile(archivePath, remoteArchivePath) resolves
PutFileResolves ==
    /\ OtherThanTransfer
    /\ tpc = "put"
    /\ remoteArchive' = localArchive
    /\ shipped' = localArchive
    /\ ops' = Logged("putFile", TRUE)
    /\ tpc' = "mkdir"
    /\ UNCHANGED <<localArchive, usedFilter, caught, traised>>

\* putFile rejects, having written nothing or part of the remote file
PutFileRejects ==
    /\ OtherThanTransfer
    /\ tpc = "put"
    /\ remoteArchive' \in {remoteArchive, PartialFile}
    /\ ops' = Logged("putFile", FALSE)
    /\ \E e \in SshErrors("putFile") : caught' = e
    /\ tpc' = "catch"
    /\ UNCHANGED <<localArchive, shipped, usedFilter, traised>>

\* await this.ssh.execCommand(`mkdir -p "${destinationPath}" || true`)
\* resolves; its result is not looked at
EnsureDestinationResolves ==
    /\ OtherThanTransfer
    /\ tpc = "mkdir"
    /\ \E ok \in BOOLEAN : ops' = Logged("mkdir", ok)
    /\ tpc' = "extract"
    /\ UNCHANGED <<localArchive, remoteArchive, shipped, usedFilter, caught,
                   traised>>

\* that execCommand rejects
EnsureDestinationRejects ==
    /\ OtherThanTransfer
    /\ tpc = "mkdir"
    /\ ops' = Logged("mkdir", FALSE)
    /\ \E e \in SshErrors("mkdir") : caught' = e
    /\ tpc' = "catch"
    /\ UNCHANGED <<localArchive, remoteArchive, shipped, usedFilter, traised>>

IsAbsolute(p) == p # <<>> /\ p[1] = "/"

\* the directory part of path.posix.join(destinationPath, archiveName)
RemoteArchiveDir(dest) == IF dest = <<".">> THEN <<>> ELSE dest

JoinDir(a, b) ==
    IF a = <<>> THEN b ELSE IF b = <<>> THEN a ELSE a \o <<"/">> \o b

\* where putFile and the rm commands, run from the login directory, find
\* remoteArchivePath
ShipDirectory(dest) == RemoteArchiveDir(dest)

\* where tar -xzf "${remoteArchivePath}" looks after cd "${destinationPath}"
ExtractDirectory(dest) ==
    IF IsAbsolute(RemoteArchiveDir(dest))
    THEN RemoteArchiveDir(dest)
    ELSE JoinDir(RemoteArchiveDir(dest), RemoteArchiveDir(dest))

\* cd "${destinationPath}" && tar -xzf "${remoteArchivePath}" && rm -f
\* "${remoteArchivePath}" exits 0: the archive was read and deleted
ExtractSucceeds ==
    /\ tpc = "extract"
    /\ ExtractDirectory(destinationPath) = ShipDirectory(destinationPath)
    /\ remoteArchive.whole
    /\ extracted' = extracted \cup remoteArchive.entries
    /\ extractResult' = [ran |-> TRUE, code |-> 0, stdout |-> <<>>,
                         stderr |-> <<>>]
    /\ remoteArchive' = NoFile
    /\ ops' = Logged("extract", TRUE)
    /\ tpc' = "cleanup"
    /\ UNCHANGED <<localArchive, shipped, usedFilter, caught, traised>>
    /\ UNCHANGED <<platform, verbose, deployVars, filterVars, ignoreVars,
                   configVars, apiVars, parVars,
                   localPath, localKind, destinationPath, excludeList>>

\* extractResult.code !== 0: throw new Error(`Failed to extract archive: ...`)
ExtractFails ==
    /\ tpc = "extract"
    /\ ops' = Logged("extract", FALSE)
    /\ \E stdout \in {<<>>, <<"out">>}, stderr \in {<<>>, <<"err">>, <<"ENOENT">>} :
          /\ extractResult' = [ran |-> TRUE, code |-> 1, stdout |-> stdout,
                               stderr |-> stderr]
          /\ caught' = ExtractError(stdout, stderr)
    /\ tpc' = "catch"
    /\ UNCHANGED <<localArchive, remoteArchive, shipped, usedFilter, traised>>
    /\ UNCHANGED <<platform, verbose, deployVars, filterVars, ignoreVars,
                   configVars, apiVars, parVars,
                   localPath, localKind, destinationPath, excludeList,
                   extracted>>

\* the extract execCommand rejects
ExtractRejects ==
    /\ OtherThanTransfer
    /\ tpc = "extract"
    /\ ops' = Logged("extract", FALSE)
    /\ \E e \in SshErrors("extract-exec") : caught' = e
    /\ tpc' = "catch"
    /\ UNCHANGED <<localArchive, remoteArchive, shipped, usedFilter, traised>>

\* Step 4 returning without removing the archive
LocalCleanupLeavesArchive ==
    /\ OtherThanTransfer
    /\ tpc = "cleanup"
    /\ tpc' = "returned"
    /\ UNCHANGED <<localArchive, ops, remoteArchive, shipped, usedFilter,
                   caught, traised>>

\* Step 4: if (await fs.pathExists(archivePath)) await fs.remove(archivePath);
\* transferFiles returns
LocalCleanupResolves ==
    /\ OtherThanTransfer
    /\ tpc = "cleanup"
    /\ IF localArchive.exists
       THEN /\ localArchive' = NoFile
            /\ ops' = Logged("remove-local", TRUE)
       ELSE UNCHANGED <<localArchive, ops>>
    /\ tpc' = "returned"
    /\ UNCHANGED <<remoteArchive, shipped, usedFilter, caught, traised>>

\* fs.remove(archivePath) rejects in Step 4
LocalCleanupRejects ==
    /\ OtherThanTransfer
    /\ tpc = "cleanup"
    /\ localArchive.exists
    /\ ops' = Logged("remove-local", FALSE)
    /\ \E e \in RemoveErrors("remove-local") : caught' = e
    /\ tpc' = "catch"
    /\ UNCHANGED <<localArchive, remoteArchive, shipped, usedFilter, traised>>

-----------------------------------------------------------------------------
(* transferFiles: catch (err) *)

\* HandlerLocalRemove with the deletion left out of the catch block
HandlerLocalRemoveSkipped ==
    /\ OtherThanTransfer
    /\ tpc = "catch"
    /\ tpc' = "rcleanup"
    /\ UNCHANGED <<localArchive, remoteArchive, shipped, usedFilter, ops,
                   caught, traised>>

\* if (await fs.pathExists(archivePath)) await fs.remove(archivePath)
HandlerLocalRemove ==
    /\ OtherThanTransfer
    /\ tpc = "catch"
    /\ IF localArchive.exists
       THEN /\ localArchive' = NoFile
            /\ ops' = Logged("handler-remove-local", TRUE)
       ELSE UNCHANGED <<localArchive, ops>>
    /\ tpc' = "rcleanup"
    /\ UNCHANGED <<remoteArchive, shipped, usedFilter, caught, traised>>

\* that fs.remove rejects: nothing catches it, it leaves transferFiles
HandlerLocalRemoveRejects ==
    /\ OtherThanTransfer
    /\ tpc = "catch"
    /\ localArchive.exists
    /\ ops' = Logged("handler-remove-local", FALSE)
    /\ \E e \in RemoveErrors("handler-remove-local") : traised' = e
    /\ tpc' = "raised"
    /\ UNCHANGED <<localArchive, remoteArchive, shipped, usedFilter, caught>>

\* try { await this.ssh.execCommand(`rm -f "${remoteArchivePath}" || true`) }
\* catch (cleanupErr) {}: the command removes the file (ok), or it fails or
\* the call rejects, which is ignored
HandlerRemoteRemove ==
    /\ OtherThanTransfer
    /\ tpc = "rcleanup"
    /\ \E ok \in BOOLEAN :
         /\ ops' = Logged("handler-rm-remote", ok)
         /\ remoteArchive' = IF ok THEN NoFile ELSE remoteArchive
    /\ tpc' = "classify"
    /\ UNCHANGED <<localArchive, shipped, usedFilter, caught, traised>>

\* the error the catch throws for err
Classified(err, lp) ==
    IF err.name = "PathNotFoundError"
    THEN err
    ELSE IF err.code = "ENOENT" \/ err.mentionsENOENT
    THEN PathNotFoundError(IF err.lstatPath # <<>> THEN err.lstatPath ELSE lp,
                           "file or directory")
    ELSE TransferError(err)

\* "Handle specific error types": throw
Classify ==
    /\ OtherThanTransfer
    /\ tpc = "classify"
    /\ traised' = Classified(caught, localPath)
    /\ tpc' = "raised"
    /\ UNCHANGED <<localArchive, remoteArchive, shipped, usedFilter, ops,
                   caught>>

\* a constructed deployer on which transferFiles is about to be called
InitTransfer ==
    /\ ConfigIdle
    /\ ApiIdle
    /\ ParallelIdle
    /\ platform \in {"posix", "win32"}
    /\ verbose = FALSE
    /\ DeployIdle
    /\ steps = <<>>
    /\ FilterIdle
    /\ IgnoreIdle
    /\ tpc = "idle"
    /\ localPath \in LocalPaths
    /\ localKind \in {"absent", "file", "dir", "other"}
    /\ destinationPath \in DestinationPaths
    /\ excludeList \in ExcludeLists
    /\ localArchive = NoFile
    /\ remoteArchive = NoFile
    /\ shipped = NoFile
    /\ usedFilter = FALSE
    /\ ops = <<>>
    /\ caught = NoTransferError
    /\ traised = NoTransferError
    /\ extracted = {}
    /\ extractResult = [ran |-> FALSE, code |-> 0, stdout |-> <<>>, stderr |-> <<>>]

NextTransfer ==
    \/ TransferCall
    \/ PathMissing
    \/ PathExists
    \/ StatRejects
    \/ NotFileOrDirectory
    \/ StatDirectory
    \/ StatFile
    \/ ReaddirRejects
    \/ ReaddirResolves
    \/ TarCreateResolves
    \/ TarCreateRejects
    \/ TarRetryResolves
    \/ TarRetryRejects
    \/ ArchiveCheck
    \/ ArchiveStatRejects
    \/ RemoveStaleResolves
    \/ RemoveStaleRejects
    \/ PutFileResolves
    \/ PutFileRejects
    \/ EnsureDestinationResolves
    \/ EnsureDestinationRejects
    \/ ExtractSucceeds
    \/ ExtractFails
    \/ ExtractRejects
    \/ LocalCleanupResolves
    \/ LocalCleanupRejects
    \/ HandlerLocalRemove
    \/ HandlerLocalRemoveRejects
    \/ HandlerRemoteRemove
    \/ Classify

SpecTransfer == InitTransfer /\ [][NextTransfer]_vars

-----------------------------------------------------------------------------
(* constructor: this.excludeList = this.loadIgnoreList() *)

\* the characters the ignore file's text is drawn from: a name character, the
\* comment mark, a blank, and the line ends
IgnoreAlphabet == {"a", "#", " ", "\n", "\r"}

\* what String.prototype.trim strips
IsWhitespace(c) == c \in {" ", "\t", "\n", "\r"}

\* "# Add ignore patterns\n"
PlaceholderText ==
    <<"#", " ", "A", "d", "d", " ", "i", "g", "n", "o", "r", "e", " ",
      "p", "a", "t", "t", "e", "r", "n", "s", "\n">>

\* text.split("\n"): the pieces between the line feeds, in order
RECURSIVE Split(_, _)
Split(text, piece) ==
    IF text = <<>>
    THEN <<piece>>
    ELSE IF Head(text) = "\n"
    THEN <<piece>> \o Split(Tail(text), <<>>)
    ELSE Split(Tail(text), Append(piece, Head(text)))

\* line.trim()
RECURSIVE Trim(_)
Trim(line) ==
    IF line = <<>>
    THEN <<>>
    ELSE IF IsWhitespace(Head(line))
    THEN Trim(Tail(line))
    ELSE IF IsWhitespace(line[Len(line)])
    THEN Trim(SubSeq(line, 1, Len(line) - 1))
    ELSE line

\* String.prototype.startsWith
StartsWith(s, t) == Len(t) <= Len(s) /\ SubSeq(s, 1, Len(t)) = t

\* IsIgnoreEntry with the comment test lost: every non-empty line is kept
IsIgnoreEntryAnyLine(line) == line # <<>>

\* the filter callback: line && !line.startsWith("#")
IsIgnoreEntry(line) == line # <<>> /\ ~StartsWith(line, <<"#">>)

\* readFileSync(...).split("\n").map(trim).filter(...)
ParseIgnoreText(text) ==
    LET lines == Split(text, <<>>)
        trimmed == [k \in 1..Len(lines) |-> Trim(lines[k])]
    IN  SelectSeq(trimmed, IsIgnoreEntry)

\* new Daffodil(options) while the ignore file is absent: the fields are
\* assigned from the options, and loadIgnoreList() does
\* writeFileSync(this.ignoreFile, "# Add ignore patterns\n"), then read it
LoadIgnoreListCreates ==
    /\ cpc = "new"
    /\ ~ignoreFile.exists
    /\ ignoreFile' = TextFile(PlaceholderText)
    /\ excludeList' = ParseIgnoreText(PlaceholderText)
    /\ config' = Constructed(options)
    /\ verbose' = OrDefault(options.verbose, FALSE)
    /\ cpc' = "constructed"
    /\ UNCHANGED <<platform, deployVars, filterVars, tpc, localPath,
                   localKind, destinationPath, localArchive, remoteArchive,
                   shipped, usedFilter, ops, caught, traised, extracted,
                   extractResult, options, apiVars, parVars>>

\* new Daffodil(options) while the ignore file exists: the fields are
\* assigned from the options, and loadIgnoreList() reads the file
LoadIgnoreListReads ==
    /\ cpc = "new"
    /\ ignoreFile.exists
    /\ excludeList' = ParseIgnoreText(ignoreFile.text)
    /\ config' = Constructed(options)
    /\ verbose' = OrDefault(options.verbose, FALSE)
    /\ cpc' = "constructed"
    /\ UNCHANGED <<platform, deployVars, filterVars, tpc, localPath,
                   localKind, destinationPath, localArchive, remoteArchive,
                   shipped, usedFilter, ops, caught, traised, extracted,
                   extractResult, ignoreFile, options, apiVars, parVars>>

IgnoreTexts == StringsUpTo(IgnoreAlphabet, MaxFileLen)

\* the options objects a caller constructs a deployer from
OptionObjects ==
    [remoteUser : {<<"u">>},
     remoteHost : {<<"h">>},
     remotePath : {Absent(<<>>), Given(<<"w">>)},
     port : {Absent(0), Given(2222)},
     ignoreFile : {Absent(<<>>), Given(<<"i">>)},
     verbose : {Absent(FALSE), Given(TRUE)}]

\* new Daffodil({...}) is about to run, over an ignore file that is absent or
\* holds some text
InitIgnore ==
    /\ platform = "posix"
    /\ verbose = FALSE
    /\ DeployIdle
    /\ steps = <<>>
    /\ FilterIdle
    /\ TransferIdle
    /\ cpc = "new"
    /\ ignoreFile \in {AbsentFile} \cup {TextFile(t) : t \in IgnoreTexts}
    /\ options \in OptionObjects
    /\ config = UnsetConfig
    /\ ApiIdle
    /\ ParallelIdle

NextIgnore ==
    \/ LoadIgnoreListCreates
    \/ LoadIgnoreListReads

SpecIgnore == InitIgnore /\ [][NextIgnore]_vars

-----------------------------------------------------------------------------
(* runCommand, sshCommand, makeDirectory, setOption, getHumanReadableError, *)
(* and the CommonJS entry point                                            *)

\* upper bound on the number of pieces of text in an error message
MaxMessageLen == 2

\* a method call touches nothing but its own result (and, setOption, verbose)
OtherThanApi ==
    UNCHANGED <<platform, deployVars, transferVars, filterVars, ignoreVars,
                configVars, parVars, apiCall>>

\* runCommand with the catch block left out
RunCommandFailsRaises ==
    /\ OtherThanApi
    /\ apiCall.op = "runCommand"
    /\ apiRet.how = "pending"
    /\ apiRet' = Ended("raised", "Error", <<>>, "threw", <<>>)
    /\ UNCHANGED verbose

\* runCommand(cmd): execSync returns the output; output?.toString() || ""
RunCommandSucceeds ==
    /\ OtherThanApi
    /\ apiCall.op = "runCommand"
    /\ apiRet.how = "pending"
    /\ \E output \in {<<>>, <<"o", "k">>} :
          apiRet' = Ended("returned", "string",
                          IF output # <<>> THEN output ELSE <<>>,
                          "ok", output)
    /\ UNCHANGED verbose

\* runCommand(cmd): execSync throws; catch (e) logs and returns null
RunCommandFails ==
    /\ OtherThanApi
    /\ apiCall.op = "runCommand"
    /\ apiRet.how = "pending"
    /\ apiRet' = Ended("returned", "null", <<>>, "threw", <<>>)
    /\ UNCHANGED verbose

\* sshCommand(cmd), or makeDirectory(dirName) awaiting it:
\* this.ssh.execCommand resolves with some exit code, stdout and stderr,
\* which are logged; nothing is returned
SshCommandResolves ==
    /\ OtherThanApi
    /\ apiCall.op \in {"sshCommand", "makeDirectory"}
    /\ apiRet.how = "pending"
    /\ \E stdout \in {<<>>, <<"o", "k">>}, stderr \in {<<>>, <<"n", "o">>},
          code \in {0, 1} :
          apiRet' = [Ended("returned", "undefined", <<>>, "resolved",
                           stdout \o stderr) EXCEPT !.code = code]
    /\ UNCHANGED verbose

\* sshCommand(cmd), or makeDirectory(dirName) awaiting it:
\* this.ssh.execCommand rejects (no connection, or the channel failed) and
\* nothing catches the rejection
SshCommandRejects ==
    /\ OtherThanApi
    /\ apiCall.op \in {"sshCommand", "makeDirectory"}
    /\ apiRet.how = "pending"
    /\ apiRet' = Ended("raised", "Error", <<>>, "rejected", <<>>)
    /\ UNCHANGED verbose

\* setOption ignoring its argument
SetOptionDefaultOnly ==
    /\ OtherThanApi
    /\ apiCall.op = "setOption"
    /\ apiRet.how = "pending"
    /\ verbose' = FALSE
    /\ apiRet' = Ended("returned", "undefined", <<>>, "none", <<>>)

\* setOption({ verbose = false }) { this.verbose = verbose; }
SetOption ==
    /\ OtherThanApi
    /\ apiCall.op = "setOption"
    /\ apiRet.how = "pending"
    /\ verbose' = OrDefault(apiCall.flag, FALSE)
    /\ apiRet' = Ended("returned", "undefined", <<>>, "none", <<>>)

\* `return error.message` for the last line of getHumanReadableError
MessageAsIs(message) == message

\* error.message || "An unexpected error occurred"
MessageOrGeneric(message) ==
    IF message # <<>> THEN message ELSE <<"An unexpected error occurred">>

\* getHumanReadableError(error) of a deployer configured as cfg; the message
\* and the result are sequences of pieces of text
getHumanReadableError(error, cfg) ==
    IF error.falsy THEN <<"Unknown error occurred">>
    ELSE IF error.class = "PathNotFoundError"
    THEN <<"The ">> \o error.type \o <<" does not exist: ">> \o error.path
    ELSE IF error.class = "TransferError" THEN error.message
    ELSE IF /\ error.message # <<>>
            /\ Includes(error.message,
                        <<"All configured authentication methods failed">>)
    THEN <<"SSH connection failed: Authentication failed. ",
           "Please check your SSH keys and credentials.">>
    ELSE IF error.message # <<>> /\ Includes(error.message, <<"ECONNREFUSED">>)
    THEN <<"SSH connection failed: Could not connect to ">>
         \o cfg.remoteHost \o <<":", ToString(cfg.port)>>
         \o <<". The server may be down or the port may be incorrect.">>
    ELSE IF error.message # <<>> /\ Includes(error.message, <<"ETIMEDOUT">>)
    THEN <<"SSH connection failed: Connection timeout to ">>
         \o cfg.remoteHost \o <<":", ToString(cfg.port)>>
         \o <<". Please check your network connection.">>
    ELSE IF error.message # <<>> /\ Includes(error.message, <<"ENOTFOUND">>)
    THEN <<"SSH connection failed: Host ">> \o cfg.remoteHost
         \o <<" not found. Please check the hostname.">>
    ELSE IF error.code = "ENOENT" THEN <<"File or directory not found.">>
    ELSE IF error.code = "EACCES"
    THEN <<"Permission denied. Please check file permissions.">>
    ELSE MessageOrGeneric(error.message)

\* the method is called on the error
GetHumanReadableError ==
    /\ OtherThanApi
    /\ apiCall.op = "getHumanReadableError"
    /\ apiRet.how = "pending"
    /\ apiRet' = Ended("returned", "string",
                       getHumanReadableError(apiCall.error, config),
                       "none", <<>>)
    /\ UNCHANGED verbose

\* const { Daffodil } = require(<the CommonJS entry point>): the export is
\* a Proxy whose get trap throws for every property
RequireGetThrows ==
    /\ OtherThanApi
    /\ apiCall.op = "require"
    /\ apiRet.how = "pending"
    /\ apiRet' = Ended("raised", "Error", <<>>, "none", <<>>)
    /\ UNCHANGED verbose

\* the errors getHumanReadableError is called on
ErrorObjects ==
    {NoErrorObject} \cup
    {ErrorObject(class, message, code) :
        class \in {"Error", "PathNotFoundError", "TransferError"},
        message \in StringsUpTo(
            {"All configured authentication methods failed", "ECONNREFUSED",
             "ETIMEDOUT", "ENOTFOUND", "boom"}, MaxMessageLen),
        code \in {"none", "ENOENT", "EACCES"}}

\* the calls made on a deployer, and the require() of the entry point
ApiCalls ==
    {Call("runCommand", <<"l", "s">>, NoErrorObject, Absent(FALSE)),
     Call("sshCommand", <<"l", "s">>, NoErrorObject, Absent(FALSE)),
     Call("makeDirectory", <<"d">>, NoErrorObject, Absent(FALSE)),
     Call("require", <<"D", "a", "f", "f", "o", "d", "i", "l">>,
          NoErrorObject, Absent(FALSE))}
    \cup {Call("setOption", <<>>, NoErrorObject, f) :
             f \in {Absent(FALSE), Given(FALSE), Given(TRUE)}}
    \cup {Call("getHumanReadableError", <<>>, e, Absent(FALSE)) :
             e \in ErrorObjects}

\* a deployer constructed from a user and a host alone, on which one method
\* is about to be called (or the package is about to be required)
InitApi ==
    /\ platform = "posix"
    /\ verbose \in BOOLEAN
    /\ DeployIdle
    /\ steps = <<>>
    /\ TransferIdle
    /\ FilterIdle
    /\ IgnoreIdle
    /\ ConfigIdle
    /\ ParallelIdle
    /\ apiCall \in ApiCalls
    /\ apiRet = NoReturn

NextApi ==
    \/ RunCommandSucceeds
    \/ RunCommandFails
    \/ SshCommandResolves
    \/ SshCommandRejects
    \/ SetOption
    \/ GetHumanReadableError
    \/ RequireGetThrows

SpecApi == InitApi /\ [][NextApi]_vars

-----------------------------------------------------------------------------
(* transferFiles invocations side by side in one process: the archive      *)
(* files they keep in process.cwd()                                        *)

\* a millisecond passes
Tick ==
    /\ clock < MaxClock
    /\ clock' = clock + 1
    /\ UNCHANGED <<platform, verbose, deployVars, transferVars, filterVars,
                   ignoreVars, configVars, apiVars, inv, cwdFiles>>

\* archiveName = `daffodil_${Date.now()}.tar.gz`;
\* archivePath = path.join(process.cwd(), archiveName)
TakeArchiveName ==
    /\ \E k \in Invocations :
          /\ inv[k].at = "idle"
          /\ inv' = [inv EXCEPT ![k] = [at |-> "tar", named |-> TRUE,
                                        name |-> clock, sent |-> 0]]
    /\ UNCHANGED <<platform, verbose, deployVars, transferVars, filterVars,
                   ignoreVars, configVars, apiVars, clock, cwdFiles>>

\* Step 1: tar.create({file: archivePath, ...}) writes the file at
\* archivePath, replacing a file that is there, or rejects
CreateArchive ==
    /\ \E k \in Invocations, ok \in BOOLEAN :
          /\ inv[k].at = "tar"
          /\ IF ok
             THEN /\ cwdFiles' = [cwdFiles EXCEPT ![inv[k].name] = k]
                  /\ inv' = [inv EXCEPT ![k].at = "put"]
             ELSE /\ cwdFiles' = cwdFiles
                  /\ inv' = [inv EXCEPT ![k].at = "catch"]
    /\ UNCHANGED <<platform, verbose, deployVars, transferVars, filterVars,
                   ignoreVars, configVars, apiVars, clock>>

\* Steps 2 and 3: the file at archivePath must exist (line 516); putFile
\* copies what it holds, and the remote extraction succeeds or fails
ShipArchive ==
    /\ \E k \in Invocations, ok \in BOOLEAN :
          /\ inv[k].at = "put"
          /\ IF cwdFiles[inv[k].name] # 0
             THEN inv' = [inv EXCEPT ![k].sent = cwdFiles[inv[k].name],
                                     ![k].at = IF ok THEN "cleanup"
                                                     ELSE "catch"]
             ELSE inv' = [inv EXCEPT ![k].at = "catch"]
    /\ UNCHANGED <<platform, verbose, deployVars, transferVars, filterVars,
                   ignoreVars, configVars, apiVars, clock, cwdFiles>>

\* Step 4 and the catch block: if (await fs.pathExists(archivePath))
\* await fs.remove(archivePath); then transferFiles returns or raises
RemoveArchive ==
    /\ \E k \in Invocations :
          /\ inv[k].at \in {"cleanup", "catch"}
          /\ cwdFiles' = [cwdFiles EXCEPT ![inv[k].name] = 0]
          /\ inv' = [inv EXCEPT ![k].at = IF inv[k].at = "cleanup"
                                          THEN "returned"
                                          ELSE "raised"]
    /\ UNCHANGED <<platform, verbose, deployVars, transferVars, filterVars,
                   ignoreVars, configVars, apiVars, clock>>

\* two deployers constructed in one process (const a = new Daffodil(..),
\* b = new Daffodil(..)), each about to run one transferFiles, one after
\* the other or side by side (Promise.all)
InitParallel ==
    /\ platform = "posix"
    /\ verbose = FALSE
    /\ DeployIdle
    /\ steps = <<>>
    /\ TransferIdle
    /\ FilterIdle
    /\ IgnoreIdle
    /\ ConfigIdle
    /\ ApiIdle
    /\ ParallelIdle

NextParallel ==
    \/ Tick
    \/ TakeArchiveName
    \/ CreateArchive
    \/ ShipArchive
    \/ RemoveArchive

SpecParallel == InitParallel /\ [][NextParallel]_vars

-----------------------------------------------------------------------------
(* One deployer over its lifetime: deploy(steps), whose step calls          *)
(* transferFiles and the other methods                                     *)

\* deploy(steps) is about to be called, or it has connected with the first
\* key and awaits its step; transferFiles has raised for a missing path
\* earlier, or the step is about to call it; no other method is called, or
\* the step is about to call one
InitInstance ==
    LET deployUncalled ==
            /\ pc = "idle"
            /\ tried = <<>>
            /\ authed = <<>>
            /\ conn = "none"
            /\ started = <<>>
            /\ inflight = {}
            /\ ensured = [ran |-> FALSE, code |-> 0, target |-> <<>>]
        deployInStep ==
            /\ pc = "await"
            /\ tried = <<"id_rsa">>
            /\ authed = <<"id_rsa">>
            /\ conn = "live"
            /\ started = <<1>>
            /\ inflight = {1}
            /\ ensured = [ran |-> TRUE, code |-> 0,
                          target |-> PosixResolve(config.remotePath)]
        transferRaised ==
            /\ tpc = "raised"
            /\ localKind = "absent"
            /\ excludeList = <<>>
            /\ traised = PathNotFoundError(<<"b">>, "file or directory")
        transferUncalled ==
            /\ tpc = "idle"
            /\ localKind \in {"absent", "file", "dir", "other"}
            /\ excludeList = <<<<"a">>>>
            /\ traised = NoTransferError
        methodUncalled == apiCall = NoCall
        methodCalled ==
            apiCall \in {c \in ApiCalls :
                            c.op \in {"setOption", "runCommand",
                                      "sshCommand", "makeDirectory"}}
    IN  /\ platform = "posix"
        /\ verbose = FALSE
        /\ steps = <<<<"u", "p">>>>
        /\ FilterIdle
        /\ IgnoreIdle
        /\ options \in {[OnlyUserAndHost EXCEPT !.remotePath = r] :
                           r \in {Absent(<<>>), Given(<<"w">>),
                                  Given(<<"/", "w">>)}}
        /\ config = Constructed(options)
        /\ ParallelIdle
        /\ apiRet = NoReturn
        /\ keyIdx = 1
        /\ keysAbsent = {}
        /\ leaked = 0
        /\ i = 1
        /\ completed = <<>>
        /\ thrown = <<>>
        /\ failedStep = NullStep
        /\ failedError = NullValue
        /\ disposeCalls = 0
        /\ raised = NoError
        /\ localPath = <<"b">>
        /\ destinationPath = <<"/", "w">>
        /\ localArchive = NoFile
        /\ remoteArchive = NoFile
        /\ shipped = NoFile
        /\ usedFilter = FALSE
        /\ ops = <<>>
        /\ caught = NoTransferError
        /\ extracted = {}
        /\ extractResult =
               [ran |-> FALSE, code |-> 0, stdout |-> <<>>, stderr |-> <<>>]
        /\ \/ deployUncalled /\ transferRaised /\ methodUncalled
           \/ deployInStep /\ transferUncalled /\ methodUncalled
           \/ deployInStep /\ transferRaised /\ methodCalled

NextInstance ==
    \/ NextDeploy
    \/ NextTransfer
    \/ SetOption
    \/ RunCommandSucceeds
    \/ RunCommandFails
    \/ SshCommandResolves
    \/ SshCommandRejects

SpecInstance == InitInstance /\ [][NextInstance]_vars

\* deploy(steps) in which every awaited operation (key probe, ssh.connect,
\* remote command, step action) settles and the code after it runs: each
\* await is followed by the one continuation of the single thread of control
SpecDeployLive == InitDeploy /\ [][NextDeploy]_vars /\ WF_vars(NextDeploy)

-----------------------------------------------------------------------------
(* deploy(steps) whose steps call runCommand or sshCommand of the deployer  *)
(* that runs them: { step, command: () => deployer.runCommand(cmd) }        *)

\* StepMethodReturned taking a null return value, or a remote command that
\* exited with a non-zero code, for a failure of the step
StepMethodReturnedChecked ==
    /\ OtherThanDeploy
    /\ pc = "await"
    /\ i \in inflight
    /\ apiRet.how = "returned"
    /\ inflight' = inflight \ {i}
    /\ IF apiRet.kind = "null" \/ apiRet.code # 0
       THEN /\ failedStep' = LabelStep(steps[i])
            /\ failedError' = ErrorValue(<<"n", "o">>)
            /\ thrown' = Append(thrown, i)
            /\ pc' = "dispose"
            /\ UNCHANGED <<i, completed>>
       ELSE /\ completed' = Append(completed, i)
            /\ i' = i + 1
            /\ pc' = "loop"
            /\ UNCHANGED <<failedStep, failedError, thrown>>
    /\ UNCHANGED ensured
    /\ UNCHANGED <<steps, keysAbsent, authed, keyIdx, tried, conn, leaked,
                   started, disposeCalls, raised>>

\* loop body, first half: command() is invoked and awaited, and it calls
\* runCommand(cmd) or sshCommand(cmd)
StepCallsMethod ==
    /\ pc = "loop"
    /\ i <= Len(steps)
    /\ started' = Append(started, i)
    /\ inflight' = inflight \cup {i}
    /\ pc' = "await"
    /\ \E op \in {"runCommand", "sshCommand"} :
          apiCall' = Call(op, <<"l", "s">>, NoErrorObject, Absent(FALSE))
    /\ apiRet' = NoReturn
    /\ UNCHANGED <<platform, verbose, transferVars, filterVars, ignoreVars,
                   configVars, parVars>>
    /\ UNCHANGED ensured
    /\ UNCHANGED <<steps, keysAbsent, authed, keyIdx, tried, conn, leaked, i,
                   completed, thrown, failedStep, failedError, disposeCalls,
                   raised>>

\* the method returned, whatever it returned: await command() resolves and
\* the loop goes to the next iteration
StepMethodReturned ==
    /\ OtherThanDeploy
    /\ pc = "await"
    /\ i \in inflight
    /\ apiRet.how = "returned"
    /\ inflight' = inflight \ {i}
    /\ completed' = Append(completed, i)
    /\ i' = i + 1
    /\ pc' = "loop"
    /\ UNCHANGED ensured
    /\ UNCHANGED <<steps, keysAbsent, authed, keyIdx, tried, conn, leaked,
                   started, thrown, failedStep, failedError, disposeCalls,
                   raised>>

\* the method raised: await command() rejects with its error; catch (err)
\* { failedStep = step; failedError = err; ...log...; break }
StepMethodRaised ==
    /\ OtherThanDeploy
    /\ pc = "await"
    /\ i \in inflight
    /\ apiRet.how = "raised"
    /\ LET v == ErrorValue(apiRet.text)
       IN  /\ failedError' = v
           /\ IF CatchThrows(v)
              THEN /\ raised' = TypeErrorValue
                   /\ pc' = "raised"
              ELSE /\ raised' = raised
                   /\ pc' = "dispose"
    /\ inflight' = inflight \ {i}
    /\ thrown' = Append(thrown, i)
    /\ failedStep' = LabelStep(steps[i])
    /\ UNCHANGED ensured
    /\ UNCHANGED <<steps, keysAbsent, authed, keyIdx, tried, conn, leaked, i,
                   started, completed, disposeCalls>>

\* deploy(steps) after connect() returned, having authenticated with the
\* first key: the loop over the steps is about to start
InitSteps ==
    /\ platform = "posix"
    /\ verbose \in BOOLEAN
    /\ steps \in StepLists
    /\ ConfigIdle
    /\ ApiIdle
    /\ ParallelIdle
    /\ TransferIdle
    /\ FilterIdle
    /\ IgnoreIdle
    /\ pc = "loop"
    /\ keysAbsent = {}
    /\ keyIdx = 1
    /\ tried = <<"id_rsa">>
    /\ authed = <<"id_rsa">>
    /\ conn = "live"
    /\ leaked = 0
    /\ ensured \in {[ran |-> TRUE, code |-> c,
                     target |-> PosixResolve(config.remotePath)] :
                       c \in {0, 1}}
    /\ i = 1
    /\ started = <<>>
    /\ inflight = {}
    /\ completed = <<>>
    /\ thrown = <<>>
    /\ failedStep = NullStep
    /\ failedError = NullValue
    /\ disposeCalls = 0
    /\ raised = NoError

NextSteps ==
    \/ StepCallsMethod
    \/ RunCommandSucceeds
    \/ RunCommandFails
    \/ SshCommandResolves
    \/ SshCommandRejects
    \/ StepMethodReturned
    \/ StepMethodRaised
    \/ LoopEnds
    \/ Dispose
    \/ DeployRaises
    \/ DeployReturns

SpecSteps == InitSteps /\ [][NextSteps]_vars

-----------------------------------------------------------------------------
(* Properties of deploy(steps) *)

\* deploy() has returned to or raised at its caller
DeployEnded == pc \in {"returned", "raised"}

\* connect() has returned normally
ConnectDone == pc \in {"loop", "await", "dispose", "finish", "returned", "raised"}

\* <<1, ..., n>>
Upto(n) == [j \in 1..n |-> j]

\* C1: the step actions are invoked in the caller's order, one at a time:
\* no action starts before connect() has returned, the actions started so far
\* are the first k steps of the list in list order, at most one of them is in
\* progress, and every started step but the last has completed without
\* throwing.
C1_StepsInOrderOneAtATime ==
    /\ started # <<>> => ConnectDone
    /\ Len(started) <= Len(steps)
    /\ started = Upto(Len(started))
    /\ Cardinality(inflight) <= 1
    /\ \A j \in 1..Len(started) :
         j < Len(started) => /\ j \notin inflight
                             /\ \E c \in 1..Len(completed) : completed[c] = j

\* C1 witness: all three steps of a three-step list were started in order and
\* the third is in progress.
C1_Witness ==
    /\ Len(steps) = 3
    /\ started = <<1, 2, 3>>
    /\ inflight = {3}
    /\ completed = <<1, 2>>

\* C2: once a step's action has thrown no later action is invoked: at most one
\* step throws per run, and when step k threw the invoked steps are exactly
\* the first k steps, each once.
C2_NoStepAfterFailure ==
    /\ Len(thrown) <= 1
    /\ thrown # <<>> => /\ started = Upto(thrown[1])
                        /\ completed = Upto(thrown[1] - 1)
                        /\ inflight = {}

\* C2 witness: [A succeeds, B fails, C]: A and B ran, C never did, and
\* deploy() has raised.
C2_Witness ==
    /\ Len(steps) = 3
    /\ thrown = <<2>>
    /\ started = <<1, 2>>
    /\ pc = "raised"

\* C3 (as claimed): deploy() raises a DeploymentError if and only if an invoked
\* action threw, and returns normally exactly when all steps completed, for
\* every label of the failing step.
C3_RaisesIffStepThrew ==
    DeployEnded =>
        /\ thrown # <<>> => pc = "raised" /\ raised.name = "DeploymentError"
        /\ pc = "raised" => thrown # <<>> /\ raised.name = "DeploymentError"
        /\ pc = "returned" => thrown = <<>> /\ completed = Upto(Len(steps))

\* C4 (as claimed): when deploy() has returned or raised, the connection that
\* connect() opened was disposed exactly once and is no longer live.
C4_DisposedOnceBeforeEnd ==
    DeployEnded => disposeCalls = 1 /\ conn = "none"

\* C5: a DeploymentError raised with verbosity off has the fixed message
\* "Deployment failed" and a stack equal to that message, whatever the label
\* and the cause (so it carries neither, beyond what the fixed text itself
\* spells); one raised with verbosity on has a message that contains the
\* failing step's label and the message of the thrown error.
C5_ErrorDetailFollowsVerbosity ==
    (pc = "raised" /\ raised.name = "DeploymentError") =>
        IF verbose
        THEN /\ Includes(raised.message, failedStep.label)
             /\ failedError.hasMessage =>
                    Includes(raised.message, failedError.message)
        ELSE /\ raised.message = MsgDeploymentFailed
             /\ raised.stack = raised.message
             /\ ~Includes(MsgDeploymentFailed, failedStep.label) =>
                    ~Includes(raised.stack, failedStep.label)
             /\ ~Includes(MsgDeploymentFailed, MessageText(failedError)) =>
                    ~Includes(raised.stack, MessageText(failedError))

\* C5 witness: a step labelled "up" failed with Error("no") and deploy() raised
\* a DeploymentError, with verbosity off.
C5_Witness ==
    /\ pc = "raised"
    /\ raised.name = "DeploymentError"
    /\ ~verbose
    /\ failedStep.label = <<"u", "p">>
    /\ failedError = ErrorValue(<<"n", "o">>)

-----------------------------------------------------------------------------
(* Properties of the exclude matcher *)

\* p without its trailing separators
StripTrailingSeparators(p, plat) ==
    LET keep == {k \in 0..Len(p) : k = 0 \/ ~IsPathSeparator(p[k], plat)}
    IN  SubSeq(p, 1, CHOOSE k \in keep : \A m \in keep : m <= k)

\* the final path segment of p: the longest separator-free suffix of p taken
\* without its trailing separators
FinalSegment(p, plat) ==
    LET t == StripTrailingSeparators(p, plat)
        free == {k \in 0..Len(t) :
                    \A m \in (k + 1)..Len(t) : ~IsPathSeparator(t[m], plat)}
    IN  SubSeq(t, (CHOOSE k \in free : \A m \in free : k <= m) + 1, Len(t))

HasStar(pat) == \E k \in 1..Len(pat) : pat[k] = "*"

\* C10 (as claimed): for a pattern without "*", the candidate is excluded if
\* and only if its final path segment equals the pattern or the
\* separator-normalized candidate path contains (or ends with) the pattern.
C10_Original ==
    (verdict # "unset" /\ ~HasStar(pattern)) =>
        (verdict = "exclude" <=>
            \/ FinalSegment(candidate, platform) = pattern
            \/ Includes(ReplaceBackslash(candidate), pattern)
            \/ EndsWith(ReplaceBackslash(candidate), pattern))

\* C10 (amended): for a pattern without "*", the candidate is excluded if and
\* only if its final path segment equals the pattern or the
\* separator-normalized candidate path contains (or ends with) the
\* separator-normalized pattern.
C10_ExactPatternExclusion ==
    (verdict # "unset" /\ ~HasStar(pattern)) =>
        (verdict = "exclude" <=>
            \/ FinalSegment(candidate, platform) = pattern
            \/ Includes(ReplaceBackslash(candidate), ReplaceBackslash(pattern))
            \/ EndsWith(ReplaceBackslash(candidate), ReplaceBackslash(pattern)))

\* C10 witness: the pattern "a" excludes the path "a/." (as node_modules
\* excludes node_modules/pkg), whose final segment is not the pattern.
C10_Witness ==
    /\ verdict = "exclude"
    /\ pattern = <<"a">>
    /\ candidate = <<"a", "/", ".">>

\* anchored wildcard matching as the contract words it: "*" matches any
\* sequence of characters, "/" either path separator, and every other
\* character of the pattern, the dot included, only itself
RECURSIVE WildcardMatch(_, _)
WildcardMatch(pat, s) ==
    IF pat = <<>>
    THEN s = <<>>
    ELSE IF Head(pat) = "*"
    THEN \E k \in 0..Len(s) : WildcardMatch(Tail(pat), SubSeq(s, k + 1, Len(s)))
    ELSE /\ s # <<>>
         /\ IF Head(pat) = "/"
            THEN Head(s) \in {"/", "\\"}
            ELSE Head(s) = Head(pat)
         /\ WildcardMatch(Tail(pat), Tail(s))

\* the name test and the substring test of the matcher do not fire for
\* (pat, p), so that the wildcard check is what decides
WildcardDecides(pat, p, plat) ==
    /\ HasStar(pat)
    /\ FinalSegment(p, plat) # pat
    /\ FinalSegment(p, plat) # ReplaceBackslash(pat)
    /\ ~Includes(ReplaceBackslash(p), ReplaceBackslash(pat))

\* C11 (as claimed): for a pattern containing "*", the wildcard check excludes
\* a candidate if and only if the whole normalized candidate path matches the
\* normalized pattern anchored at both ends, "*" matching any sequence, "/"
\* either separator and every other character, "." included, only itself.
C11_AnchoredWildcardSemantics ==
    (verdict # "unset" /\ WildcardDecides(pattern, candidate, platform)) =>
        (verdict = "exclude" <=>
            WildcardMatch(ReplaceBackslash(pattern), ReplaceBackslash(candidate)))

-----------------------------------------------------------------------------
(* Properties of transferFiles *)

\* transferFiles has returned to or raised at its caller
TransferEnded == tpc \in {"returned", "raised"}

\* the operation op was issued with outcome ok
Did(op, ok) == \E k \in 1..Len(ops) : ops[k] = [op |-> op, ok |-> ok]

\* the last character of lp is a path separator of the platform
EndsWithSeparator(lp, plat) ==
    lp # <<>> /\ IsPathSeparator(lp[Len(lp)], plat)

\* C6: transferFiles on a local path that does not exist issues no archive
\* creation, remote command or copy, and once it is past the existence check
\* it has raised a PathNotFoundError carrying exactly that path, of type
\* "directory" when the path ends with a path separator and "file or
\* directory" otherwise.
C6_MissingPathFailsFirst ==
    localKind = "absent" =>
        /\ ops = <<>>
        /\ ~localArchive.exists
        /\ ~remoteArchive.exists
        /\ tpc \in {"idle", "exists", "raised"}
        /\ tpc = "raised" =>
              /\ traised.name = "PathNotFoundError"
              /\ traised.path = localPath
              /\ traised.type = IF EndsWithSeparator(localPath, platform)
                                THEN "directory"
                                ELSE "file or directory"

\* C6 witness: on win32 the missing path "b\" was reported as a directory.
C6_Witness ==
    /\ localKind = "absent"
    /\ platform = "win32"
    /\ localPath = <<"b", "\\">>
    /\ tpc = "raised"
    /\ traised.type = "directory"

\* C7 (as claimed, a deletion that itself fails set aside): when transferFiles
\* has returned or raised, a local archive is left only if a delete of it was
\* attempted and failed, and a remote archive is left only if the cleanup
\* removal of it was attempted and failed.
C7_ArchiveRemovedOnEveryExit ==
    TransferEnded =>
        /\ localArchive.exists =>
              Did("remove-local", FALSE) \/ Did("handler-remove-local", FALSE)
        /\ remoteArchive.exists => Did("handler-rm-remote", FALSE)

C9_ShippedArchiveRespectsExcludes ==
    shipped.exists =>
        \A e \in shipped.entries : filterFn(excludeList, e, platform)

\* no pattern of the list matches any of the paths tar is asked to pack
NoPatternMatches(list, entries, plat) ==
    \A e \in entries : \A k \in 1..Len(list) : ~PatternExcludes(list[k], e, plat)

\* C12: an archive created under an empty exclude list, where the matcher is
\* skipped, holds every path tar was asked to pack, and so does an archive
\* created with the matcher run over a list none of whose patterns matches:
\* the two are the same archive.
C12_EmptyListIncludesAll ==
    /\ \A c \in CandidatePaths : filterFn(<<>>, c, platform)
    /\ (/\ localArchive.whole
        /\ NoPatternMatches(excludeList,
                            TarEntries(localKind, localPath, platform), platform))
       => /\ localArchive.entries = TarEntries(localKind, localPath, platform)
          /\ localArchive.entries =
                 Packed(TarEntries(localKind, localPath, platform), <<>>,
                        platform, FALSE)

\* C12 witness: a directory was archived under an empty exclude list, no
\* filter was passed, and the archive holds the whole tree.
C12_Witness ==
    /\ excludeList = <<>>
    /\ localKind = "dir"
    /\ Did("tar.create", TRUE)
    /\ ~usedFilter
    /\ localArchive.entries = DirectoryTree

-----------------------------------------------------------------------------
(* Properties of the constructor *)

\* the lines of text: line j lies between the (j-1)th and the jth line feed
LineFeeds(text) == {k \in 1..Len(text) : text[k] = "\n"}
LineStart(text, j) ==
    IF j = 1
    THEN 1
    ELSE 1 + CHOOSE k \in LineFeeds(text) :
                 Cardinality({m \in LineFeeds(text) : m <= k}) = j - 1
LineEnd(text, j) ==
    IF j = Cardinality(LineFeeds(text)) + 1
    THEN Len(text)
    ELSE (CHOOSE k \in LineFeeds(text) :
              Cardinality({m \in LineFeeds(text) : m <= k}) = j) - 1
LineOf(text, j) == SubSeq(text, LineStart(text, j), LineEnd(text, j))

\* l without the whitespace at its two ends
Stripped(l) ==
    LET ink == {k \in 1..Len(l) : ~IsWhitespace(l[k])}
    IN  IF ink = {}
        THEN <<>>
        ELSE SubSeq(l, CHOOSE k \in ink : \A m \in ink : k <= m,
                       CHOOSE k \in ink : \A m \in ink : m <= k)

\* the stripped lines of text that are non-empty and do not start with "#",
\* in file order
PatternLines(text) ==
    LET n == Cardinality(LineFeeds(text)) + 1
        kept == {j \in 1..n : /\ Stripped(LineOf(text, j)) # <<>>
                              /\ Stripped(LineOf(text, j))[1] # "#"}
        nth(r) == CHOOSE j \in kept : Cardinality({m \in kept : m <= j}) = r
    IN  [r \in 1..Cardinality(kept) |-> Stripped(LineOf(text, nth(r)))]

\* C13: the exclude list built at construction is the sequence, in file order,
\* of the trimmed lines of the ignore file that are non-empty and do not start
\* with "#"; no entry of it is empty or starts with "#"; and an ignore file
\* that was absent exists afterwards with the placeholder comment as its text,
\* the list being empty.
C13_ExcludeListFromIgnoreFile ==
    cpc = "constructed" =>
        /\ ignoreFile.exists
        /\ excludeList = PatternLines(ignoreFile.text)
        /\ \A k \in 1..Len(excludeList) :
              excludeList[k] # <<>> /\ excludeList[k][1] # "#"
        /\ ignoreFile.text = PlaceholderText => excludeList = <<>>

\* C13 witness: the file "a\n# \na" (a pattern, a comment, the pattern again)
\* was read into the list ["a", "a"].
C13_Witness ==
    /\ cpc = "constructed"
    /\ ignoreFile.text = <<"a", "\n", "#", "\n", "a">>
    /\ excludeList = <<<<"a">>, <<"a">>>>

\* C28: a deployer constructed from remoteUser and remoteHost alone has
\* remotePath ".", port 22, ignoreFile ".scpignore" and verbose false, and
\* every option supplied to the constructor is stored as it was supplied.
C28_ConstructorDefaults ==
    cpc = "constructed" =>
        /\ config.remoteUser = options.remoteUser
        /\ config.remoteHost = options.remoteHost
        /\ config.remotePath = IF options.remotePath.given
                               THEN options.remotePath.val
                               ELSE <<".">>
        /\ config.port = IF options.port.given THEN options.port.val ELSE 22
        /\ config.ignoreFile =
               IF options.ignoreFile.given
               THEN options.ignoreFile.val
               ELSE <<".", "s", "c", "p", "i", "g", "n", "o", "r", "e">>
        /\ verbose = IF options.verbose.given
                     THEN options.verbose.val
                     ELSE FALSE

\* C28 witness: a deployer constructed from a user and a host alone, and it
\* listens on port 22
C28_Witness ==
    /\ cpc = "constructed"
    /\ options = OnlyUserAndHost
    /\ config.port = 22
    /\ config.remotePath = <<".">>
    /\ ~verbose

-----------------------------------------------------------------------------
(* Properties of connect() *)

\* the position of key k in keyFiles
KeyIndex(k) == CHOOSE j \in 1..Len(keyFiles) : keyFiles[j] = k

\* C14 (as claimed): the keys are attempted in the order id_rsa, id_ed25519,
\* id_ecdsa, id_dsa, no key found absent from disk is attempted, and no key
\* later than the first one that authenticated is attempted.
C14_KeyOrderStopsAtFirstSuccess ==
    /\ \A a, b \in 1..Len(tried) :
          a < b => KeyIndex(tried[a]) < KeyIndex(tried[b])
    /\ \A a \in 1..Len(tried) : tried[a] \notin keysAbsent
    /\ authed # <<>> =>
          \A a \in 1..Len(tried) : KeyIndex(tried[a]) <= KeyIndex(authed[1])

\* connect() has been through every key and none authenticated: each was
\* absent from disk or its ssh.connect rejected
NoKeyWorked == pc # "idle" /\ keyIdx > Len(keyFiles) /\ authed = <<>>

LiveConnections == (IF conn = "live" THEN 1 ELSE 0) + leaked

\* C16 (as claimed): once connect() has returned normally, and while the steps
\* run, exactly one connection is live; once it has ended on the fatal path
\* none is.
C16_OneConnectionOnReturnNoneOnExit ==
    /\ pc \in {"loop", "await"} => LiveConnections = 1
    /\ pc = "exited" => LiveConnections = 0

\* C17 (as claimed): at every moment at most one connection is live, and
\* ssh.connect is never called while an earlier connection is still live.
C17_AtMostOneLiveConnection ==
    /\ LiveConnections <= 1
    /\ pc = "authing" => conn = "none"

-----------------------------------------------------------------------------
(* Properties of the errors transferFiles raises *)

\* C18 (as claimed): every error transferFiles raises to its caller is a
\* PathNotFoundError or a TransferError, whichever operation failed.
C18_OnlyClassifiedErrorsRaised ==
    tpc = "raised" => traised.name \in {"PathNotFoundError", "TransferError"}

\* C19 (as claimed): after a failure inside the pipeline (the catch received a
\* cause) the error raised is the cause itself if it is a PathNotFoundError; a
\* PathNotFoundError carrying the path parsed from the cause's message, or the
\* input local path when there is none to parse, if the cause's code is ENOENT
\* or its message contains ENOENT; and otherwise a TransferError wrapping the
\* cause.
C19_FailureClassification ==
    (tpc = "raised" /\ caught # NoTransferError) =>
        IF caught.name = "PathNotFoundError"
        THEN traised = caught
        ELSE IF caught.code = "ENOENT" \/ caught.mentionsENOENT
        THEN /\ traised.name = "PathNotFoundError"
             /\ traised.path = IF caught.lstatPath # <<>>
                               THEN caught.lstatPath
                               ELSE localPath
        ELSE /\ traised.name = "TransferError"
             /\ traised.origin = caught.origin
             /\ traised.cause = caught.name

\* the operations of the ship and extract steps, which run against the remote
\* host
RemoteOrigins == {"rm-stale", "putFile", "mkdir", "extract", "extract-exec"}

\* C20 (as claimed): a PathNotFoundError raised by transferFiles does not
\* report a failure of the ship or extract step, and the path it carries is a
\* local path that is absent or neither file nor directory: the input path
\* when validation found it so or its listing found it gone, or the entry that
\* vanished under the archiver.
C20_PathNotFoundMeansLocalPathMissing ==
    (tpc = "raised" /\ traised.name = "PathNotFoundError") =>
        /\ caught.origin \notin RemoteOrigins
        /\ \/ traised.path = localPath /\ localKind \in {"absent", "other"}
           \/ traised.path = localPath /\ caught.origin = "readdir"
           \/ /\ caught.origin = "tar.create"
              /\ caught.lstatPath # <<>>
              /\ traised.path = caught.lstatPath

-----------------------------------------------------------------------------
(* Properties of the single method calls *)

\* C21: runCommand never raises; it returns the captured output as a string
\* (the empty string when there is none) when the command succeeds and
\* null when it fails, so its result is null exactly when the command failed.
C21_RunCommandNullIffFailed ==
    apiCall.op = "runCommand" /\ apiRet.how # "pending" =>
        /\ apiRet.how = "returned"
        /\ apiRet.env = "ok" =>
              apiRet.kind = "string" /\ apiRet.text = apiRet.envText
        /\ apiRet.kind = "null" <=> apiRet.env = "threw"

\* C21 witness: a failed command has made runCommand return null
C21_Witness ==
    /\ apiCall.op = "runCommand"
    /\ apiRet.how = "returned"
    /\ apiRet.env = "threw"
    /\ apiRet.kind = "null"

\* C22: sshCommand never raises and returns no value, whatever the remote
\* command's exit code and output, and also when the exec call itself fails.
C22_SshCommandNeverRaises ==
    apiCall.op = "sshCommand" /\ apiRet.how # "pending" =>
        apiRet.how = "returned" /\ apiRet.kind = "undefined"

\* what the claim's categories look at
Mentions(e, piece) == \E k \in 1..Len(e.message) : e.message[k] = piece

\* the claim's categories of an error, in their order of precedence
Categories ==
    <<"no error", "path not found", "transfer", "authentication",
      "refused", "timeout", "host not found", "ENOENT", "EACCES",
      "otherwise">>

InCategory(e, c) ==
    CASE c = "no error" -> e.falsy
      [] c = "path not found" -> ~e.falsy /\ e.class = "PathNotFoundError"
      [] c = "transfer" -> ~e.falsy /\ e.class = "TransferError"
      [] c = "authentication" ->
            Mentions(e, "All configured authentication methods failed")
      [] c = "refused" -> Mentions(e, "ECONNREFUSED")
      [] c = "timeout" -> Mentions(e, "ETIMEDOUT")
      [] c = "host not found" -> Mentions(e, "ENOTFOUND")
      [] c = "ENOENT" -> e.code = "ENOENT"
      [] c = "EACCES" -> e.code = "EACCES"
      [] c = "otherwise" -> TRUE

FirstCategory(e) ==
    Categories[CHOOSE k \in 1..Len(Categories) :
                  /\ InCategory(e, Categories[k])
                  /\ \A j \in 1..(k - 1) : ~InCategory(e, Categories[j])]

\* the sentence of a category; `fallback` is the sentence of "otherwise"
Sentence(e, cfg, c, fallback) ==
    CASE c = "no error" -> <<"Unknown error occurred">>
      [] c = "path not found" ->
            <<"The ">> \o e.type \o <<" does not exist: ">> \o e.path
      [] c = "transfer" -> e.message
      [] c = "authentication" ->
            <<"SSH connection failed: Authentication failed. ",
              "Please check your SSH keys and credentials.">>
      [] c = "refused" ->
            <<"SSH connection failed: Could not connect to ">>
            \o cfg.remoteHost \o <<":", "22">>
            \o <<". The server may be down or the port may be incorrect.">>
      [] c = "timeout" ->
            <<"SSH connection failed: Connection timeout to ">>
            \o cfg.remoteHost \o <<":", "22">>
            \o <<". Please check your network connection.">>
      [] c = "host not found" ->
            <<"SSH connection failed: Host ">> \o cfg.remoteHost
            \o <<" not found. Please check the hostname.">>
      [] c = "ENOENT" -> <<"File or directory not found.">>
      [] c = "EACCES" ->
            <<"Permission denied. Please check file permissions.">>
      [] c = "otherwise" -> fallback

HumanReadableCalled ==
    apiCall.op = "getHumanReadableError" /\ apiRet.how = "returned"

\* C27 as stated: the error maps to the sentence of its first category, and
\* an error of no category maps to its raw message.
C27_Original ==
    HumanReadableCalled =>
        apiRet.text = Sentence(apiCall.error, config,
                               FirstCategory(apiCall.error),
                               apiCall.error.message)

\* C27, amended: the error maps to the sentence of its first category, and
\* an error of no category maps to its raw message when that is not empty
\* and to "An unexpected error occurred" when it is empty or missing.
C27_HumanReadablePrecedence ==
    HumanReadableCalled =>
        apiRet.text = Sentence(apiCall.error, config,
                               FirstCategory(apiCall.error),
                               IF apiCall.error.message # <<>>
                               THEN apiCall.error.message
                               ELSE <<"An unexpected error occurred">>)

\* C27 witness: an error that names a refused connection and carries the
\* code ENOENT has been mapped to the connection-refused sentence
C27_Witness ==
    /\ HumanReadableCalled
    /\ apiCall.error.class = "Error"
    /\ Mentions(apiCall.error, "ECONNREFUSED")
    /\ ~Mentions(apiCall.error,
                 "All configured authentication methods failed")
    /\ apiCall.error.code = "ENOENT"
    /\ apiRet.text[1] = "SSH connection failed: Could not connect to "

\* C29: requiring the CommonJS entry point and destructuring Daffodil from
\* the result yields the Daffodil class.
C29_RequireYieldsDaffodil ==
    apiCall.op = "require" /\ apiRet.how # "pending" =>
        apiRet.how = "returned" /\ apiRet.kind = "class"

-----------------------------------------------------------------------------
(* Properties of a deployer over its lifetime *)

\* C25: no operation (setOption, connect, deploy, transferFiles, runCommand,
\* sshCommand, makeDirectory) changes the session configuration or the
\* exclude list of a constructed deployer; the verbosity flag changes only
\* in a setOption call, and setOption({verbose: v}) leaves it equal to v.
C25_ConfigurationFixedAfterConstruction ==
    [][/\ config' = config
       /\ excludeList' = excludeList
       /\ verbose' # verbose =>
             apiCall.op = "setOption" /\ apiRet.how = "pending"
                                      /\ apiRet'.how = "returned"
       /\ (/\ apiCall.op = "setOption"
           /\ apiRet.how = "pending"
           /\ apiRet'.how = "returned"
           /\ apiCall.flag.given) => verbose' = apiCall.flag.val]_vars

\* C25 witness: deploy has returned after its step called
\* setOption({verbose: true}), which switched verbosity on, while the
\* configuration is the constructor's
C25_Witness ==
    /\ pc = "returned"
    /\ apiCall = Call("setOption", <<>>, NoErrorObject, Given(TRUE))
    /\ apiRet.how = "returned"
    /\ verbose
    /\ options = OnlyUserAndHost
    /\ config = Constructed(OnlyUserAndHost)
    /\ excludeList = <<>>

-----------------------------------------------------------------------------
(* Properties of the order of a transfer's operations *)

\* the operations issued so far, without their outcomes
OpNames == [k \in 1..Len(ops) |-> ops[k].op]

\* the operations of a transfer, in the order of the claim
TransferOrder ==
    <<"tar.create", "rm-stale", "putFile", "mkdir", "extract", "remove-local">>

\* the copy is started only over an existing local archive, and in a
\* returned transfer the archive was created, copied, extracted with exit
\* code 0 and only then deleted
CopyAndDeletionGuarded ==
    /\ tpc = "put" => localArchive.exists
    /\ tpc = "returned" =>
          /\ Did("tar.create", TRUE)
          /\ Did("putFile", TRUE)
          /\ Did("extract", TRUE)
          /\ Did("remove-local", TRUE)
          /\ ~Did("putFile", FALSE)
          /\ ~Did("extract", FALSE)
          /\ ~Did("remove-local", FALSE)

\* C30 as stated: in a successful transferFiles the operations are, in this
\* order and each exactly once, local archive creation, stale remote
\* removal, copy, ensure-destination, extract-and-delete, local deletion.
C30_Original ==
    /\ tpc = "returned" => OpNames = TransferOrder
    /\ CopyAndDeletionGuarded

\* C30, amended: the same order, each operation exactly once, except that
\* the local archive creation may be preceded by one failed attempt when
\* the exclude list is not empty (the archive is then created a second
\* time, without the filter).
C30_OperationOrder ==
    /\ tpc = "returned" =>
          \/ OpNames = TransferOrder
          \/ /\ OpNames = <<"tar.create">> \o TransferOrder
             /\ ops[1] = [op |-> "tar.create", ok |-> FALSE]
             /\ ops[2] = [op |-> "tar.create", ok |-> TRUE]
             /\ excludeList # <<>>
    /\ CopyAndDeletionGuarded

\* C30 witness: a transfer has returned after its first archive creation
\* failed and the second one succeeded
C30_Witness ==
    /\ tpc = "returned"
    /\ Len(ops) = Len(TransferOrder) + 1
    /\ ops[1] = [op |-> "tar.create", ok |-> FALSE]
    /\ ~localArchive.exists

-----------------------------------------------------------------------------
(* Properties of the archive round trip *)

\* the entries of the directory that the exclude list leaves: those that
\* neither they nor a directory above them are excluded
KeptEntries(list, plat) ==
    {e \in DirectoryTree :
        \A q \in DirectoryTree : IsUnder(q, e) => filterFn(list, q, plat)}

\* C26: archiving a directory and extracting the archive into an empty
\* destination reproduces exactly the directory's entries minus the excluded
\* ones (an excluded directory with its whole subtree), the directory's
\* children at the top level of the destination.
C26_RoundTrip ==
    tpc = "returned" /\ localKind = "dir" =>
        extracted = KeptEntries(excludeList, platform)

-----------------------------------------------------------------------------
(* Properties of transferFiles invocations side by side *)

\* C23: any two transferFiles invocations of one process, successive or
\* overlapping, use distinct archive names.
C23_DistinctArchiveNames ==
    \A j, k \in Invocations :
        j # k /\ inv[j].named /\ inv[k].named => inv[j].name # inv[k].name

\* C24: two deployers running transferFiles in parallel do not interfere:
\* in no step does one invocation overwrite, ship or delete a local archive
\* file that the other invocation created.
C24_ParallelTransfersDoNotInterfere ==
    [][/\ \A n \in DOMAIN cwdFiles :
             cwdFiles'[n] # cwdFiles[n] /\ cwdFiles[n] # 0 =>
                 \E k \in Invocations :
                     inv'[k] # inv[k] /\ cwdFiles[n] = k
       /\ \A k \in Invocations : inv'[k].sent \in {0, k}]_vars

-----------------------------------------------------------------------------
(* Properties of the failure handling of a transfer *)

\* the pipeline's catch block was entered: the failure came after archiving
\* had begun
FailedInPipeline == tpc = "raised" /\ caught # NoTransferError

Attempted(op) == Did(op, TRUE) \/ Did(op, FALSE)

\* C31: when transferFiles fails after archiving has begun, both the local
\* and the remote archive copy are attempted to be deleted, an error of
\* either deletion is ignored, and the error raised is the classification
\* of the original failure, never the cleanup error.
C31_CleanupErrorsIgnored ==
    FailedInPipeline =>
        /\ traised = Classified(caught, localPath)
        /\ Attempted("handler-rm-remote")

\* the archive creation attempts so far (they come first among the operations)
TarAttempts == SelectSeq(ops, LAMBDA o : o.op = "tar.create")

\* C32: archive creation is attempted at most twice per call; a first attempt
\* that throws is retried exactly once, without the filter, when the exclude
\* list is not empty, and is not retried when it is empty; a failure of the
\* last attempt fails the transfer.
C32_ArchiveCreationRetriedOnce ==
    LET n == Len(TarAttempts)
        retryPending == tpc = "retry"
        failing == tpc \in {"catch", "rcleanup", "classify", "raised"}
    IN  /\ n <= 2
        /\ n = 2 => ~TarAttempts[1].ok /\ HasFilter(excludeList)
        /\ n = 2 /\ TarAttempts[2].ok /\ localArchive.exists => ~usedFilter
        /\ n = 1 /\ ~TarAttempts[1].ok =>
              IF HasFilter(excludeList) THEN retryPending ELSE failing
        /\ retryPending => n = 1 /\ ~TarAttempts[1].ok
        /\ n = 2 /\ ~TarAttempts[2].ok => failing

\* C32 witness: a transfer has raised after the first attempt and the retry
\* both failed
C32_Witness ==
    /\ tpc = "raised"
    /\ Len(TarAttempts) = 2
    /\ ~TarAttempts[1].ok
    /\ ~TarAttempts[2].ok
    /\ HasFilter(excludeList)

\* C33: a failure of the stale-remote-archive removal is ignored: the copy is
\* still attempted, and the transfer does not fail for it.
C33_StaleRemovalFailureIgnored ==
    Did("rm-stale", FALSE) /\ TransferEnded =>
        /\ Attempted("putFile")
        /\ caught.origin # "rm-stale"

\* C34: when the remote extract command returns a non-zero result,
\* transferFiles fails with a TransferError, never reporting success, and the
\* error's detail carries the combined stdout and stderr of the command.
C34_ExtractFailureIsTransferError ==
    extractResult.ran /\ extractResult.code # 0 =>
        /\ tpc # "returned"
        /\ tpc = "raised" =>
              /\ traised.name = "TransferError"
              /\ traised.detail = extractResult.stdout \o extractResult.stderr

-----------------------------------------------------------------------------
(* Properties of what is shipped and where it is extracted *)

\* C37: when the local path is a regular file, the archive that is shipped
\* holds exactly that one file, whatever the exclude list.
C37_SingleFileIsTheOnlyEntry ==
    shipped.exists /\ localKind = "file" =>
        shipped.entries = {Basename(localPath, platform)}

\* C38: for every destinationPath, the archive path the extract command
\* reads after its cd into destinationPath denotes the remote file that the
\* ship step wrote (and that the rm commands remove).
C38_ExtractReadsTheShippedArchive ==
    Did("putFile", TRUE) =>
        ExtractDirectory(destinationPath) = ShipDirectory(destinationPath)

-----------------------------------------------------------------------------
(* Properties of the remote base directory *)

\* C36: when connect returns normally, the create-if-absent command that ran
\* on the new connection targeted exactly the configured remotePath, be it
\* absolute or relative, and completed successfully.
C36_RemoteBaseDirectoryEnsured ==
    ConnectDone =>
        /\ ensured.ran
        /\ ensured.target = config.remotePath
        /\ ensured.code = 0

-----------------------------------------------------------------------------
(* Properties of steps that call runCommand or sshCommand *)

\* the command of the running step failed without the method raising:
\* runCommand returned null, or the remote command of sshCommand exited with
\* a non-zero code having written to stderr
CommandFailedQuietly ==
    /\ apiRet.how = "returned"
    /\ \/ apiCall.op = "runCommand" /\ apiRet.kind = "null"
       \/ /\ apiCall.op = "sshCommand"
          /\ apiRet.code # 0
          /\ Includes(apiRet.envText, <<"n", "o">>)

\* C35: a step whose runCommand(cmd) or sshCommand(cmd) fails (null return,
\* or non-zero remote exit with stderr output) counts as completed: the loop
\* goes on to the next step without recording a failure, and as long as no
\* step has thrown, deploy does not end with an error.
C35_FailedCommandCompletesStep ==
    /\ [][pc = "await" /\ CommandFailedQuietly /\ pc' # "await" =>
             /\ pc' = "loop"
             /\ i' = i + 1
             /\ completed' = Append(completed, i)
             /\ thrown' = thrown
             /\ failedStep' = failedStep]_vars
    /\ [](thrown = <<>> =>
             /\ failedStep = NullStep
             /\ raised = NoError
             /\ pc \in {"loop", "await", "dispose", "finish", "returned"}
             /\ pc \in {"dispose", "finish", "returned"} =>
                    completed = Upto(Len(steps)))

\* C35 witness: deploy has returned normally from three steps, all counted
\* as completed, the last of which ran a command that failed
C35_Witness ==
    /\ pc = "returned"
    /\ Len(steps) = 3
    /\ completed = <<1, 2, 3>>
    /\ CommandFailedQuietly
    /\ raised = NoError

-----------------------------------------------------------------------------
(* Properties of the termination of deploy(steps) *)

\* deploy has ended in one of the three ways: it returned, it raised a
\* DeploymentError, or connect() ended the process
EndedAsSpecified ==
    \/ pc = "returned"
    \/ pc = "raised" /\ raised.name = "DeploymentError"
    \/ pc = "exited"

\* deploy has ended, in whatever way
DeployOver == pc \in {"returned", "raised", "exited"}

\* C39: when every external operation eventually completes or fails, a
\* deploy invocation eventually ends in exactly one of a normal return, a
\* raised DeploymentError, or the exit of the process; it does not stay in
\* connecting or in a step forever, and no step is entered twice.
C39_DeployTerminates ==
    /\ <>EndedAsSpecified
    /\ [](DeployOver => EndedAsSpecified)
    /\ [](\A j, k \in 1..Len(started) : started[j] = started[k] => j = k)
    /\ [][DeployOver => pc' = pc]_vars

\* under the same fairness, deploy does end, and no step is entered twice
C39_DeployEnds ==
    /\ <>DeployOver
    /\ [](\A j, k \in 1..Len(started) : started[j] = started[k] => j = k)

====
